---- MODULE Spec2Model ----
(***************************************************************************)
(* CyberNova: the alert pipeline.                                          *)
(*                                                                         *)
(*   SpecSim   the simulator ingest loop, cybernova2/app/generator.py run  *)
(*   SpecIds   the Suricata eve.json tailer, app/suricata_ingest.py        *)
(*             SuricataProcessor driven by monitor_suricata                *)
(*   SpecSave  the write-temp-then-rename file save, step by step          *)
(*             (generator.py save_json, suricata_ingest.py                 *)
(*             save_json_atomic)                                           *)
(*   SpecDash  the output files shared by the ingest loops and the         *)
(*             dashboard's inject_threat (app/app.py)                      *)
(*   SpecLoops the IDS loops and the simulator loop: what an iteration     *)
(*             that raises does to them                                    *)
(*   SpecFetch the space-weather loops, nasa_ingest.py and                 *)
(*             noaa_swpc_ingest.py, with failing fetches                   *)
(*   SpecCard  the dashboard's status card, app.py threat_level            *)
(*   SpecLoad  the readers of a JSON file that may be missing or corrupt   *)
(*   SpecDet   the simulator's detection rules, generator.py detect        *)
(*   SpecTail  the asset tailer, cybernova2/app/suricata_ingest.py         *)
(*   SpecText  the Suricata tailer over a log written piece by piece       *)
(*   SpecPair  two processes in save_json_atomic on one destination        *)
(*   SpecSse   the event stream of events_server.py sse_generator          *)
(*   SpecFp    utils.py sha1_fingerprint over any parts                    *)
(*   SpecIso   isolation_controller.py isolate_host and release_host       *)
(*                                                                         *)
(* SpecDedup, SpecOrder and SpecSeverity are SpecIds over other logs.      *)
(*                                                                         *)
(* Each specification moves its own variables and leaves the others at     *)
(* their initial value.                                                    *)
(***************************************************************************)
EXTENDS Integers, Sequences, FiniteSets, TLC

VARIABLES
    \* ---- simulator loop (generator.py run)
    alerts,         \* run's list `alerts`, oldest first
    alertsFile,     \* content of live_alerts.json
    simClock,       \* wall clock of the simulator, in half minutes
    nextId,         \* number of uuid4 identifiers drawn so far
    simAccepted,    \* history: ids appended to `alerts`, in append order
    \* ---- Suricata tailer (suricata_ingest.py)
    eve,            \* eve.json: the sequence of its lines
    last_position,  \* SuricataProcessor.last_position
    alert_cache,    \* SuricataProcessor.alert_cache: dedup key -> timestamp
    stats,          \* SuricataProcessor.stats
    stateFile,      \* content of suricata_state.json
    hostEvents,     \* content of host_isolation_events.json
    now,            \* wall clock of the tailer (utcnow), in model seconds
    pc,             \* where monitor_suricata's iteration stands
    new_alerts,     \* value returned by the last process_new_lines
    idsHist,        \* history of the tailer, read only by the properties
    idsBudget,      \* restarts and truncations so far (bounds the model)
    \* ---- one file save, step by step
    files,          \* path -> content
    savePc,         \* position inside save_json / save_json_atomic
    saveObj,        \* the document being saved
    saveHist,       \* history of the save, read only by the properties
    \* ---- the output files and the processes that write them
    store,          \* output file -> its content, a list of entries
    writers,        \* history: output file -> the processes that wrote it
    injPc,          \* position inside the dashboard's inject_threat
    injLocal,       \* the list inject_threat has loaded
    genMem,         \* generator.run's in-memory `feed` and `alerts`
    genPc,          \* position inside generator.run's line 208
    uhePc,          \* position inside the tailer's update_host_events
    uheLocal,       \* update_host_events' list `events`
    dashBudget,     \* entries made so far, per process (bounds the model)
    \* ---- the polling loops and their failing iterations
    consecutive_errors, \* monitor_suricata's consecutive_errors
    monPc,          \* monitor_suricata: running, exited or interrupted
    monHist,        \* history of monitor_suricata's iterations
    enhPc,          \* run_enhanced_monitor: running or interrupted
    enhErrors,      \* run_enhanced_monitor's stats.total_errors
    enhLast,        \* history: how run_enhanced_monitor's last iteration
                    \* ended, and whether an odd number of them has run
    runPc,          \* generator.run's loop: running or raised
    \* ---- the space-weather polling loops (nasa_ingest.py, noaa_swpc_ingest.py)
    donkiPc,        \* nasa_ingest.run: fetch, store or raised
    donkiNext,      \* index of the endpoint nasa_ingest.run fetches next
    new_items,      \* nasa_ingest.run's new_items of this iteration
    donkiFeed,      \* nasa_ingest.run's list `feed`
    donkiAlerts,    \* length of nasa_ingest.run's list `alerts`
    nasaFeedFile,   \* content of nasa_live_feed_data.json
    donkiHist,      \* history of the DONKI loop, read only by the properties
    swpcPc,         \* noaa_swpc_ingest.run: running or raised
    swpcFile,       \* content of noaa_swpc.json
    swpcHist,       \* history of the SWPC loop, read only by the properties
    \* ---- the dashboard's status card (app.py)
    merged_alerts,  \* app.py's list merged_alerts of the last run of the script
    sev_key,        \* first value returned by threat_level(merged_alerts)
    sev_label,      \* second value returned by threat_level(merged_alerts)
    \* ---- reading a JSON file (load_json, _load_state)
    diskFile,       \* content of the file at the path that is read
    loaded,         \* the last call of a reader and what came of it
    \* ---- the simulator's detection rules (generator.py detect)
    CFG,            \* generator.py CFG, the thresholds of config.yaml
    prev_gps,       \* run's prev_gps, the last GPS record handled
    detected,       \* the last call of detect: its arguments and what it returned
    \* ---- the asset tailer (cybernova2/app/suricata_ingest.py monitor_alerts)
    eveLog,         \* /var/log/suricata/eve.json: the sequence of its lines
    f_offset,       \* position of monitor_alerts' file object f, in lines
    tailRunning,    \* whether monitor_alerts is running
    allAlerts,      \* monitor_alerts' list all_alerts
    alertsJson,     \* content of data/alerts.json
    handled,        \* history: how often each line of eveLog was processed
    tailBudget,     \* how often the process was stopped so far
    \* ---- the tailer over a log written piece by piece (suricata_ingest.py process_new_lines)
    eveText,        \* eve.json as the pieces written to it, in order
    textPosition,   \* SuricataProcessor.last_position, in pieces
    textCache,      \* SuricataProcessor.alert_cache
    emitted,        \* history: src_ip of the alerts the polls returned, in order
    \* ---- two processes saving to one destination (app.py and suricata_ingest.py save_json_atomic)
    fsInodes,       \* the files of the data directory: inode -> content, cell by cell
    fsDir,          \* the directory: destination and '<path>.tmp' -> inode, 0 when absent
    saver,          \* each writer's place in save_json_atomic, its open file and offset
    \* ---- the SSE event server (events_server.py sse_generator)
    sseFile,        \* content of host_isolation_events.json: the events, oldest first
    last_len,       \* sse_generator's last_len
    sseSent,        \* history: the events yielded to the connected client, in order
    sseBudget,      \* events appended and clients connected so far
    \* ---- utils.py sha1_fingerprint, the calls made
    fpCalls,        \* the last two calls of sha1_fingerprint, oldest first
    \* ---- isolation_controller.py
    isoFile,        \* data/isolation_state.json: absent, or the document it holds
    isoClock,       \* the UTC time _now() reads, in operations made
    isoOp,          \* history: the operation made last, its ip and mode
    isoLast         \* history: the operation made last on each ip

simVars  == <<alerts, alertsFile, simClock, nextId, simAccepted>>
idsVars  == <<eve, last_position, alert_cache, stats, stateFile, hostEvents,
              now, pc, new_alerts, idsHist, idsBudget>>
saveVars == <<files, savePc, saveObj, saveHist>>
dashVars == <<store, writers, injPc, injLocal, genMem, genPc, uhePc,
              uheLocal, dashBudget>>
loopVars == <<consecutive_errors, monPc, monHist, enhPc, enhErrors, enhLast,
              runPc>>
fetchVars == <<donkiPc, donkiNext, new_items, donkiFeed, donkiAlerts,
               nasaFeedFile, donkiHist, swpcPc, swpcFile, swpcHist>>
cardVars == <<merged_alerts, sev_key, sev_label>>
loadVars == <<diskFile, loaded>>
detVars == <<CFG, prev_gps, detected>>
tailVars == <<eveLog, f_offset, tailRunning, allAlerts, alertsJson, handled,
              tailBudget>>
textVars == <<eveText, textPosition, textCache, emitted>>
pairVars == <<fsInodes, fsDir, saver>>
sseVars == <<sseFile, last_len, sseSent, sseBudget>>
fpVars == <<fpCalls>>
isoVars == <<isoFile, isoClock, isoOp, isoLast>>
vars == <<simVars, idsVars, saveVars, dashVars, loopVars, fetchVars,
          cardVars, loadVars, detVars, tailVars, textVars, pairVars, sseVars,
          fpVars, isoVars>>

\* What the actions of one part leave unchanged: the other parts
exceptSim == <<idsVars, saveVars, dashVars, loopVars, fetchVars, cardVars,
               loadVars, detVars, tailVars, textVars, pairVars, sseVars,
               fpVars, isoVars>>
exceptIds == <<simVars, saveVars, dashVars, loopVars, fetchVars, cardVars,
               loadVars, detVars, tailVars, textVars, pairVars, sseVars,
               fpVars, isoVars>>
exceptSave == <<simVars, idsVars, dashVars, loopVars, fetchVars, cardVars,
                loadVars, detVars, tailVars, textVars, pairVars, sseVars,
                fpVars, isoVars>>
exceptDash == <<simVars, idsVars, saveVars, loopVars, fetchVars, cardVars,
                loadVars, detVars, tailVars, textVars, pairVars, sseVars,
                fpVars, isoVars>>
exceptLoop == <<simVars, idsVars, saveVars, dashVars, fetchVars, cardVars,
                loadVars, detVars, tailVars, textVars, pairVars, sseVars,
                fpVars, isoVars>>
exceptFetch == <<simVars, idsVars, saveVars, dashVars, loopVars, cardVars,
                 loadVars, detVars, tailVars, textVars, pairVars, sseVars,
                 fpVars, isoVars>>
exceptCard == <<simVars, idsVars, saveVars, dashVars, loopVars, fetchVars,
                loadVars, detVars, tailVars, textVars, pairVars, sseVars,
                fpVars, isoVars>>
exceptLoad == <<simVars, idsVars, saveVars, dashVars, loopVars, fetchVars,
                cardVars, detVars, tailVars, textVars, pairVars, sseVars,
                fpVars, isoVars>>
exceptDet == <<simVars, idsVars, saveVars, dashVars, loopVars, fetchVars,
               cardVars, loadVars, tailVars, textVars, pairVars, sseVars,
               fpVars, isoVars>>
exceptTail == <<simVars, idsVars, saveVars, dashVars, loopVars, fetchVars,
                cardVars, loadVars, detVars, textVars, pairVars, sseVars,
                fpVars, isoVars>>
exceptText == <<simVars, idsVars, saveVars, dashVars, loopVars, fetchVars,
                cardVars, loadVars, detVars, tailVars, pairVars, sseVars,
                fpVars, isoVars>>
exceptPair == <<simVars, idsVars, saveVars, dashVars, loopVars, fetchVars,
                cardVars, loadVars, detVars, tailVars, textVars, sseVars,
                fpVars, isoVars>>
exceptSse == <<simVars, idsVars, saveVars, dashVars, loopVars, fetchVars,
               cardVars, loadVars, detVars, tailVars, textVars, pairVars,
               fpVars, isoVars>>
exceptFp == <<simVars, idsVars, saveVars, dashVars, loopVars, fetchVars,
              cardVars, loadVars, detVars, tailVars, textVars, pairVars,
              sseVars, isoVars>>
exceptIso == <<simVars, idsVars, saveVars, dashVars, loopVars, fetchVars,
               cardVars, loadVars, detVars, tailVars, textVars, pairVars,
               sseVars, fpVars>>

\* The last n elements of s: Python's s[-n:] for n >= 1.
LastN(s, n) == IF Len(s) <= n THEN s ELSE SubSeq(s, Len(s) - n + 1, Len(s))

SeqToSet(s) == {s[i] : i \in 1..Len(s)}

(***************************************************************************)
(* Bounds of the model.                                                    *)
(***************************************************************************)
\* retention.max_alerts of config.yaml (generator.py MAX_ALERTS), scaled
MAX_ALERTS == 3
\* the literal 100 of `alerts[-100:]` in run, scaled
RecentWindow == 2
\* uuid4 identifiers the simulator may draw
MaxIds == 5
\* half minutes the simulator's clock may advance
MaxSimClock == 3

(***************************************************************************)
(* Simulator: generator.py                                                 *)
(***************************************************************************)
Whitelist == {"192.168.1.10", "192.168.1.11", "192.168.1.12"}
Critical  == {"DEACTIVATE_TRANSPONDER", "FACTORY_RESET", "ORBIT_DECAY"}

\* gen_command(anom): the COMMAND_LOG records it can return (one whitelisted
\* address, one operator and one ordinary command stand for the three or
\* four it draws from; one address stands for 203.0.113.1..254).
GenCommand(anom) ==
    IF ~anom
    THEN {[source_ip |-> "192.168.1.10", user_id |-> "operator_alpha",
           command_type |-> "STATUS_CHECK", status |-> "SUCCESS"]}
    ELSE {[source_ip |-> "203.0.113.7", user_id |-> "unknown",
           command_type |-> "STATUS_CHECK", status |-> "FAILED_AUTH"],
          [source_ip |-> "192.168.1.10", user_id |-> "unknown_hacker",
           command_type |-> "DEACTIVATE_TRANSPONDER", status |-> "FAILED_AUTH"],
          [source_ip |-> "192.168.1.10", user_id |-> "operator_alpha",
           command_type |-> "LOGIN_ATTEMPT", status |-> "FAILED"]}

\* `"FAILED" in feed["status"]` over the status strings gen_command writes
ContainsFAILED(status) == status \in {"FAILED", "FAILED_AUTH"}

\* detect, COMMAND_LOG branch, with 'Failed Login' on any failed status
\* whatever the command
DetectCommandAnyFailed(feed) ==
    (IF feed.source_ip \notin Whitelist /\ feed.user_id = "unknown"
     THEN << <<"Unauthorized Command", "">> >> ELSE << >>)
    \o
    (IF feed.command_type \in Critical /\ feed.user_id = "unknown_hacker"
     THEN << <<"Critical Command", "">> >> ELSE << >>)
    \o
    (IF ContainsFAILED(feed.status)
     THEN << <<"Failed Login", "">> >> ELSE << >>)

\* detect(feed, prev_gps), COMMAND_LOG branch: the (type, description) pairs
DetectCommand(feed) ==
    (IF feed.source_ip \notin Whitelist /\ feed.user_id = "unknown"
     THEN << <<"Unauthorized Command",
               "Unauthorized IP (" \o feed.source_ip \o ") attempting '"
                   \o feed.command_type \o "'">> >>
     ELSE << >>)
    \o
    (IF feed.command_type \in Critical /\ feed.user_id = "unknown_hacker"
     THEN << <<"Critical Command",
               "Critical '" \o feed.command_type \o "' from unknown user">> >>
     ELSE << >>)
    \o
    (IF ContainsFAILED(feed.status) /\ feed.command_type = "LOGIN_ATTEMPT"
     THEN << <<"Failed Login", "Failed login from " \o feed.source_ip>> >>
     ELSE << >>)

\* severity_from_type, over the command-log types
severity_from_type(t) ==
    CASE t = "Unauthorized Command" -> "HIGH"
      [] t = "Critical Command"     -> "CRITICAL"
      [] t = "Failed Login"         -> "LOW"
      [] OTHER                      -> "LOW"

\* now_iso()[:16], the minute of a timestamp counted in half minutes
MinuteBucket(ts) == ToString(ts \div 2)

\* sha1_fingerprint(*parts): the digest of the concatenated parts.  The
\* digest is taken as injective on its input, so it is written as the input.
sha1_fingerprint(src, typ, desc, bucket) ==
    "sha1(" \o src \o typ \o desc \o bucket \o ")"

\* uuid_str(): the n-th identifier drawn; identifiers never repeat and a
\* uuid4 string (36 characters) is never a sha1 hex digest (40 characters).
uuid_str(n) == "uuid-" \o ToString(n)

\* build_alert with the whole of now_iso(), seconds included, in the digest
build_alert_seconds(src, typ, desc, ts, n) ==
    [id |-> uuid_str(n), source |-> src, type |-> typ,
     severity |-> severity_from_type(typ), timestamp |-> ts,
     description |-> desc,
     fingerprint |-> sha1_fingerprint(src, typ, desc, ToString(ts))]

\* build_alert(src, typ, desc) at time ts, drawing identifier number n
build_alert(src, typ, desc, ts, n) ==
    [id |-> uuid_str(n), source |-> src, type |-> typ,
     severity |-> severity_from_type(typ), timestamp |-> ts,
     description |-> desc,
     fingerprint |-> sha1_fingerprint(src, typ, desc, MinuteBucket(ts))]

\* run, line 201: seen = {a.get('id') for a in alerts[-100:] if 'id' in a}
SeenAtCycleStart(as) == {a.id : a \in SeqToSet(LastN(as, RecentWindow))}

\* run, lines 203-205: the loop over cycle_alerts, from position i on
RECURSIVE AppendUnseen(_, _, _, _)
AppendUnseen(as, seen, cycle_alerts, i) ==
    IF i > Len(cycle_alerts) THEN as
    ELSE LET a == cycle_alerts[i] IN
         IF a.fingerprint \notin seen
         THEN AppendUnseen(Append(as, a), seen \cup {a.fingerprint},
                           cycle_alerts, i + 1)
         ELSE AppendUnseen(as, seen, cycle_alerts, i + 1)

\* cycle_alerts of one iteration: build_alert over detect's pairs, each with
\* a fresh identifier
CycleAlerts(pairs, ts, n) ==
    [i \in 1..Len(pairs) |->
        build_alert("SIM", pairs[i][1], pairs[i][2], ts, n + i - 1)]

SimInit ==
    /\ alerts = << >>
    /\ alertsFile = << >>
    /\ simClock = 0
    /\ nextId = 0
    /\ simAccepted = << >>

\* One iteration of run's while loop (lines 183-209) whose command item is
\* `item`.  The telemetry, network and GPS items of the iteration yield
\* candidates through the same build_alert/append path; their rules read
\* thresholds of config.yaml.
SimCycle(item) ==
    LET pairs        == DetectCommand(item)
        cycle_alerts == CycleAlerts(pairs, simClock, nextId)
        appended     == AppendUnseen(alerts, SeenAtCycleStart(alerts),
                                     cycle_alerts, 1)
        capped       == LastN(appended, MAX_ALERTS)
    IN  /\ nextId + Len(pairs) <= MaxIds
        /\ alerts' = capped
        /\ alertsFile' = capped
        /\ nextId' = nextId + Len(pairs)
        /\ simAccepted' = simAccepted \o
               [i \in 1..(Len(appended) - Len(alerts)) |->
                   appended[Len(alerts) + i].id]
        /\ UNCHANGED simClock
        /\ UNCHANGED exceptSim

SimCycleStep == \E anom \in BOOLEAN : \E item \in GenCommand(anom) : SimCycle(item)

\* time.sleep(1) and the time the iteration takes
SimTick ==
    /\ simClock < MaxSimClock
    /\ simClock' = simClock + 1
    /\ UNCHANGED <<alerts, alertsFile, nextId, simAccepted>>
    /\ UNCHANGED exceptSim

\* The process is stopped and started again: run, lines 174-175
SimRestart ==
    /\ alerts' = alertsFile
    /\ UNCHANGED <<alertsFile, simClock, nextId, simAccepted>>
    /\ UNCHANGED exceptSim

(***************************************************************************)
(* The detection rules: generator.py detect, and the loop over the items   *)
(* of one iteration of run                                                 *)
(***************************************************************************)
\* greatest packet_count of a NETWORK_TRAFFIC record
MaxPackets == 4
\* greatest data_volume_kb of a NETWORK_TRAFFIC record
MaxVolume == 2

\* CFG = yaml.safe_load(f): the thresholds detect reads.  The values are
\* those of the file; two ceilings of the large-packet rule (below and above
\* the DDoS threshold) and two speed gates (below and above the spoofing
\* jump) are taken.
Configs ==
    {[network |-> [ddos_packets_min |-> 2, large_packet_kb_min |-> 1,
                   large_packet_packets_max |-> pmax],
      gps |-> [spoofing_deg_threshold |-> 1, speed_m_s_threshold |-> speed,
               degraded_accuracy_m |-> 10, weak_signal_db |-> -130]] :
        pmax \in {1, 3}, speed \in {50, 119950}}

ConfigAtStart ==
    [network |-> [ddos_packets_min |-> 2, large_packet_kb_min |-> 1,
                  large_packet_packets_max |-> 1],
     gps |-> [spoofing_deg_threshold |-> 1, speed_m_s_threshold |-> 50,
              degraded_accuracy_m |-> 10, weak_signal_db |-> -130]]

\* The records detect may be given.  A GPS position is a distance in metres
\* along one line from BASE_LAT, BASE_LON.
NetRecords ==
    {[feed_type |-> "NETWORK_TRAFFIC", source_ip |-> "192.168.1.10",
      packet_count |-> p, data_volume_kb |-> v] :
        p \in 0..MaxPackets, v \in 0..MaxVolume}

GpsRecords ==
    {[feed_type |-> "GPS_SIGNAL", receiver_id |-> "BEY_AIRPORT_GPS_01",
      position_m |-> x, accuracy_m |-> a, signal_strength_db |-> ss] :
        x \in {0, 60, 120000}, a \in {3, 30}, ss \in {-120, -150}}

CommandRecords ==
    {[feed_type |-> "COMMAND_LOG", source_ip |-> ip, user_id |-> user,
      command_type |-> cmd, status |-> status] :
        ip \in {"192.168.1.10", "203.0.113.7"},
        user \in {"operator_alpha", "unknown", "unknown_hacker"},
        cmd \in {"STATUS_CHECK", "DEACTIVATE_TRANSPONDER", "LOGIN_ATTEMPT"},
        status \in {"SUCCESS", "FAILED", "FAILED_AUTH"}}

\* prev_gps = None, and the {} run passes for an item that is not GPS
NoFix ==
    [feed_type |-> "none", receiver_id |-> "", position_m |-> 0,
     accuracy_m |-> 0, signal_strength_db |-> 0]

\* `if prev_gps:` is false for None and for {}
Truthy(prev) == prev.feed_type # "none"

\* haversine_m between two positions on the line
haversine_m(a, b) == IF a >= b THEN a - b ELSE b - a

\* the literal 111000 of line 153 (metres in a degree)
MetresPerDegree == 111000

\* detect, NETWORK_TRAFFIC branch, with `<` for the packet ceiling replaced
\* by `<=`
DetectNetworkInclusive(feed, cfg) ==
    (IF feed.packet_count > cfg.network.ddos_packets_min
     THEN << <<"DDoS", "Traffic Spike (" \o ToString(feed.packet_count)
                           \o " pkts) from " \o feed.source_ip>> >>
     ELSE << >>)
    \o
    (IF /\ feed.data_volume_kb > cfg.network.large_packet_kb_min
        /\ feed.packet_count <= cfg.network.large_packet_packets_max
     THEN << <<"Large Packet", "Large Packet ("
                   \o ToString(feed.data_volume_kb) \o "KB) from "
                   \o feed.source_ip>> >>
     ELSE << >>)

\* detect, NETWORK_TRAFFIC branch (lines 143-147)
DetectNetwork(feed, cfg) ==
    (IF feed.packet_count > cfg.network.ddos_packets_min
     THEN << <<"DDoS", "Traffic Spike (" \o ToString(feed.packet_count)
                           \o " pkts) from " \o feed.source_ip>> >>
     ELSE << >>)
    \o
    (IF /\ feed.data_volume_kb > cfg.network.large_packet_kb_min
        /\ feed.packet_count < cfg.network.large_packet_packets_max
     THEN << <<"Large Packet", "Large Packet ("
                   \o ToString(feed.data_volume_kb) \o "KB) from "
                   \o feed.source_ip>> >>
     ELSE << >>)

\* detect, GPS_SIGNAL branch, with the first rule that fires ending the
\* branch (elif)
DetectGpsExclusive(feed, prev, cfg) ==
    LET dist_m == haversine_m(prev.position_m, feed.position_m) IN
    IF Truthy(prev)
       /\ dist_m > cfg.gps.spoofing_deg_threshold * MetresPerDegree
    THEN << <<"GPS Spoofing", "">> >>
    ELSE IF Truthy(prev) /\ dist_m > cfg.gps.speed_m_s_threshold
    THEN << <<"GPS Speed Gate", "">> >>
    ELSE IF feed.accuracy_m > cfg.gps.degraded_accuracy_m
    THEN << <<"GPS Accuracy", "">> >>
    ELSE IF feed.signal_strength_db < cfg.gps.weak_signal_db
    THEN << <<"GPS Jamming", "">> >>
    ELSE << >>

\* detect, GPS_SIGNAL branch (lines 148-162)
DetectGps(feed, prev, cfg) ==
    LET dist_m == haversine_m(prev.position_m, feed.position_m) IN
    (IF Truthy(prev)
        /\ dist_m > cfg.gps.spoofing_deg_threshold * MetresPerDegree
     THEN << <<"GPS Spoofing", feed.receiver_id \o " - Position jump "
                                   \o ToString(dist_m) \o " m">> >>
     ELSE << >>)
    \o
    (IF Truthy(prev) /\ dist_m > cfg.gps.speed_m_s_threshold
     THEN << <<"GPS Speed Gate", feed.receiver_id \o " - Unrealistic move "
                                     \o ToString(dist_m) \o " m/s">> >>
     ELSE << >>)
    \o
    (IF feed.accuracy_m > cfg.gps.degraded_accuracy_m
     THEN << <<"GPS Accuracy", feed.receiver_id \o " - Degraded accuracy ("
                                   \o ToString(feed.accuracy_m) \o " m)">> >>
     ELSE << >>)
    \o
    (IF feed.signal_strength_db < cfg.gps.weak_signal_db
     THEN << <<"GPS Jamming", feed.receiver_id \o " - Weak signal ("
                   \o ToString(feed.signal_strength_db) \o " dB)">> >>
     ELSE << >>)

\* detect(feed, prev_gps) under the thresholds cfg
detect(feed, prev, cfg) ==
    IF feed.feed_type = "COMMAND_LOG" THEN DetectCommand(feed)
    ELSE IF feed.feed_type = "NETWORK_TRAFFIC" THEN DetectNetwork(feed, cfg)
    ELSE IF feed.feed_type = "GPS_SIGNAL" THEN DetectGps(feed, prev, cfg)
    ELSE << >>

\* the types of detect's pairs, in order
TypesOf(pairs) == [i \in 1..Len(pairs) |-> pairs[i][1]]

NoDetect == [feed |-> NoFix, prev |-> NoFix, types |-> << >>]

DetInit ==
    /\ CFG = ConfigAtStart
    /\ prev_gps = NoFix
    /\ detected = NoDetect

\* The body of `for it in items` (run, lines 192-196) for one item
HandleItem(it) ==
    LET prev == IF it.feed_type = "GPS_SIGNAL" THEN prev_gps ELSE NoFix
    IN  /\ detected' = [feed |-> it, prev |-> prev,
                        types |-> TypesOf(detect(it, prev, CFG))]
        /\ prev_gps' = IF it.feed_type = "GPS_SIGNAL" THEN it ELSE prev_gps
        /\ UNCHANGED CFG
        /\ UNCHANGED exceptDet

HandleItemStep ==
    \E it \in NetRecords \cup GpsRecords \cup CommandRecords : HandleItem(it)

\* The generator is started again: the module reads config.yaml (lines
\* 13-15) and run takes prev_gps from the last GPS record of the feed file,
\* if the file is there (lines 174-179)
DetRestart(cfg, feedFound) ==
    /\ CFG' = cfg
    /\ prev_gps' = IF feedFound THEN prev_gps ELSE NoFix
    /\ detected' = NoDetect
    /\ UNCHANGED exceptDet

DetRestartStep ==
    \E cfg \in Configs : \E feedFound \in BOOLEAN : DetRestart(cfg, feedFound)

(***************************************************************************)
(* Suricata tailer: suricata_ingest.py                                     *)
(***************************************************************************)
\* MAX_EVENTS (1000), scaled
MAX_EVENTS == 2
\* DEDUP_WINDOW (300 seconds), scaled to model seconds
DEDUP_WINDOW == 2
\* BATCH_SIZE (50 lines), scaled
BATCH_SIZE == 2
\* lines eve.json may hold
MaxLines == 3
\* model seconds the tailer's clock may advance
MaxNow == 2
\* lines one processor may read in all (stats["processed"])
MaxProcessed == 5
\* times the tailer process may be restarted
MaxRestarts == 1
\* times eve.json may be truncated
MaxTruncates == 1
\* model seconds the clock may advance while the order of events is studied
MaxOrderNow == 3

\* One line of eve.json.  json is what json.loads makes of the line: an
\* object, another JSON value (the line "not json" with its quotes), or a
\* JSONDecodeError (the line not json).  An object carries the EVE fields:
\* timestamp (model seconds; aware: the string ends in Z or an offset),
\* src_ip, dest_ip and the nested alert.signature_id.
AlertLine(src, sid, ts, aware) ==
    [json |-> "object", event_type |-> "alert", timestamp |-> ts,
     aware |-> aware, src_ip |-> src, dest_ip |-> "10.0.0.9",
     alert |-> [signature_id |-> sid]]
FlowLine(ts) ==
    [json |-> "object", event_type |-> "flow", timestamp |-> ts,
     aware |-> FALSE, src_ip |-> "10.0.0.1", dest_ip |-> "10.0.0.9",
     alert |-> [signature_id |-> 0]]
GarbageLine ==
    [json |-> "invalid", event_type |-> "", timestamp |-> 0,
     aware |-> FALSE, src_ip |-> "", dest_ip |-> "",
     alert |-> [signature_id |-> 0]]
ScalarLine ==
    [json |-> "scalar", event_type |-> "", timestamp |-> 0,
     aware |-> FALSE, src_ip |-> "", dest_ip |-> "",
     alert |-> [signature_id |-> 0]]

\* The JSON values alert.priority may hold: a number, a string, null
JsonInt(n) == [type |-> "int", n |-> n, text |-> ""]
JsonStr(text) == [type |-> "str", n |-> 0, text |-> text]
JsonNull == [type |-> "null", n |-> 0, text |-> ""]

\* An alert line whose alert object has the key priority
PriorityLine(src, ts, priority) ==
    [json |-> "object", event_type |-> "alert", timestamp |-> ts,
     aware |-> FALSE, src_ip |-> src, dest_ip |-> "10.0.0.9",
     alert |-> [signature_id |-> 1, priority |-> priority]]

\* The lines appended to eve.json at time t while the tailer's offsets are
\* under study: alerts of two hosts (the second with an offset-aware
\* timestamp, as Suricata and create_test_alerts write it), a non-alert
\* event and a line that is not JSON.
TailLines(t) ==
    {AlertLine("10.0.0.1", 1, t, FALSE), AlertLine("10.0.0.3", 1, t, TRUE),
     FlowLine(0), GarbageLine}

\* The lines appended at time t while deduplication is under study: alerts
\* between the same two hosts under two signatures, and one of another host.
DedupLines(t) ==
    {AlertLine("10.0.0.1", 1, t, FALSE), AlertLine("10.0.0.1", 2, t, FALSE),
     AlertLine("10.0.0.2", 1, t, FALSE)}

\* The lines appended at time t while the severity of alerts is under
\* study: alerts of one host with no priority, each priority Suricata
\* writes (1 to 4), a priority in a string and a null priority
MaxPriority == 4

SeverityLines(t) ==
    {AlertLine("10.0.0.1", 1, t, FALSE)}
    \cup {PriorityLine("10.0.0.1", t, JsonInt(n)) : n \in 1..MaxPriority}
    \cup {PriorityLine("10.0.0.1", t, JsonStr(x)) : x \in {"2", "high"}}
    \cup {PriorityLine("10.0.0.1", t, JsonNull)}

\* int(v): the number, the number a string of digits spells, or an
\* exception (ValueError for another string, TypeError for None)
py_int(v) ==
    IF v.type = "int" THEN [raised |-> FALSE, n |-> v.n]
    ELSE IF v.type = "str" /\ v.text \in {"1", "2", "3", "4"}
    THEN [raised |-> FALSE,
          n |-> CASE v.text = "1" -> 1 [] v.text = "2" -> 2
                  [] v.text = "3" -> 3 [] OTHER -> 4]
    ELSE [raised |-> TRUE, n |-> 0]

\* get_severity_from_priority(priority)
get_severity_from_priority(priority) ==
    LET prio == py_int(priority)
    IN  IF prio.raised THEN "MEDIUM"
        ELSE IF prio.n = 1 THEN "CRITICAL"
        ELSE IF prio.n = 2 THEN "HIGH"
        ELSE IF prio.n = 3 THEN "MEDIUM"
        ELSE "LOW"

\* alert.get("priority", 3)
GetPriority(alert) ==
    IF "priority" \in DOMAIN alert THEN alert.priority ELSE JsonInt(3)

\* "priority": int(priority), line 119
int_of_priority(priority) == py_int(priority)

\* alert_data.get('signature_id') on the raw event: the key at top level
TopLevelSignatureId(obj) ==
    IF "signature_id" \in DOMAIN obj THEN ToString(obj.signature_id)
    ELSE "None"

\* create_alert_hash(alert_data); md5 is taken as injective on its input
create_alert_hash(alert_data) ==
    "md5(" \o alert_data.src_ip \o "-" \o alert_data.dest_ip \o "-"
           \o TopLevelSignatureId(alert_data) \o ")"

\* parse_suricata_alert(eve_line): None, an exception, or the parsed alert
parse_suricata_alert(eve_line) ==
    IF eve_line.json = "invalid" THEN [res |-> "None"]
    ELSE IF eve_line.json = "scalar" THEN [res |-> "raise"]   \* obj.get
    ELSE IF eve_line.event_type # "alert" THEN [res |-> "None"]
    ELSE IF int_of_priority(GetPriority(eve_line.alert)).raised
    THEN [res |-> "raise"]                                    \* int(priority)
    ELSE [res |-> "alert",
          alert |-> [id |-> "SUR_" \o ToString(eve_line.alert.signature_id)
                             \o "_" \o create_alert_hash(eve_line),
                     timestamp |-> eve_line.timestamp,
                     aware |-> eve_line.aware,
                     severity |-> get_severity_from_priority(
                                      GetPriority(eve_line.alert)),
                     priority |-> int_of_priority(
                                      GetPriority(eve_line.alert)).n,
                     src_ip |-> eve_line.src_ip,
                     dest_ip |-> eve_line.dest_ip,
                     signature_id |-> eve_line.alert.signature_id,
                     raw_event |-> eve_line]]

EmptyCache == [k \in {} |-> [timestamp |-> 0, aware |-> FALSE]]

CachePut(cache, key, when) ==
    [k \in (DOMAIN cache) \cup {key} |-> IF k = key THEN when ELSE cache[k]]

\* is_duplicate with the window taken on both sides of the cached time: a
\* line older than the cached time by DEDUP_WINDOW or more is let through
is_duplicate_two_sided(alert, cache) ==
    LET alert_hash   == create_alert_hash(alert.raw_event)
        current_time == [timestamp |-> alert.timestamp, aware |-> alert.aware]
    IN  IF alert_hash \in DOMAIN cache
        THEN LET last_seen == cache[alert_hash]
                 elapsed   == current_time.timestamp - last_seen.timestamp
             IN
             IF last_seen.aware # current_time.aware
             THEN [res |-> "raise", cache |-> cache]
             ELSE IF elapsed < DEDUP_WINDOW /\ elapsed > 0 - DEDUP_WINDOW
             THEN [res |-> "True", cache |-> cache]
             ELSE [res |-> "False",
                   cache |-> CachePut(cache, alert_hash, current_time)]
        ELSE [res |-> "False",
              cache |-> CachePut(cache, alert_hash, current_time)]

\* SuricataProcessor.is_duplicate(alert) on cache `cache`: the answer
\* (True, False or an exception) and the cache afterwards.  Subtracting an
\* offset-aware from an offset-naive datetime raises TypeError.
is_duplicate(alert, cache) ==
    LET alert_hash   == create_alert_hash(alert.raw_event)
        current_time == [timestamp |-> alert.timestamp, aware |-> alert.aware]
    IN  IF alert_hash \in DOMAIN cache
        THEN LET last_seen == cache[alert_hash] IN
             IF last_seen.aware # current_time.aware
             THEN [res |-> "raise", cache |-> cache]
             ELSE IF current_time.timestamp - last_seen.timestamp < DEDUP_WINDOW
             THEN [res |-> "True", cache |-> cache]
             ELSE [res |-> "False",
                   cache |-> CachePut(cache, alert_hash, current_time)]
        ELSE [res |-> "False",
              cache |-> CachePut(cache, alert_hash, current_time)]

\* (src_ip, dest_ip, signature_id) of a parsed alert
Triple(alert) == <<alert.src_ip, alert.dest_ip, alert.signature_id>>

\* The body of the for loop with a rejected duplicate counted among the
\* errors as well
ProcessLineDuplicateAsError(st, line) ==
    LET counted == [st.stats EXCEPT !.processed = @ + 1]
        parsed  == parse_suricata_alert(line)
    IN  IF parsed.res = "raise"
        THEN [st EXCEPT !.stats = [counted EXCEPT !.errors = @ + 1],
                        !.outcomes = Append(@, "error")]
        ELSE IF parsed.res = "None"
        THEN [st EXCEPT !.stats = counted,
                        !.outcomes = Append(@, "ignored")]
        ELSE LET d == is_duplicate(parsed.alert, st.cache) IN
             IF d.res = "raise"
             THEN [st EXCEPT !.stats = [counted EXCEPT !.errors = @ + 1],
                             !.outcomes = Append(@, "error")]
             ELSE IF d.res = "True"
             THEN [st EXCEPT !.stats = [counted EXCEPT !.duplicates = @ + 1,
                                                       !.errors = @ + 1],
                             !.outcomes = Append(@, "duplicate")]
             ELSE [st EXCEPT !.cache = d.cache,
                             !.stats = [counted EXCEPT !.alerts = @ + 1],
                             !.out = Append(@, parsed.alert),
                             !.outcomes = Append(@, "accepted"),
                             !.triples = @ \cup {Triple(parsed.alert)}]

\* The body of process_new_lines' for loop (lines 229-239) on one line.
\* st = [cache, stats, out, outcomes]: the cache, the counters, new_alerts
\* and, for the properties, what became of each line read: "accepted",
\* "duplicate", "error", "ignored", or "repeat" for a duplicate whose
\* (src_ip, dest_ip, signature_id) was accepted before.
ProcessLine(st, line) ==
    LET counted == [st.stats EXCEPT !.processed = @ + 1]
        parsed  == parse_suricata_alert(line)
    IN  IF parsed.res = "raise"
        THEN [st EXCEPT !.stats = [counted EXCEPT !.errors = @ + 1],
                        !.outcomes = Append(@, "error")]
        ELSE IF parsed.res = "None"
        THEN [st EXCEPT !.stats = counted,
                        !.outcomes = Append(@, "ignored")]
        ELSE LET d == is_duplicate(parsed.alert, st.cache) IN
             IF d.res = "raise"
             THEN [st EXCEPT !.stats = [counted EXCEPT !.errors = @ + 1],
                             !.outcomes = Append(@, "error")]
             ELSE IF d.res = "True"
             THEN [st EXCEPT !.stats = [counted EXCEPT !.duplicates = @ + 1],
                             !.outcomes = Append(@,
                                 IF Triple(parsed.alert) \in st.triples
                                 THEN "repeat" ELSE "duplicate")]
             ELSE [st EXCEPT !.cache = d.cache,
                             !.stats = [counted EXCEPT !.alerts = @ + 1],
                             !.out = Append(@, parsed.alert),
                             !.outcomes = Append(@, "accepted"),
                             !.triples = @ \cup {Triple(parsed.alert)}]

\* The for loop over the lines from offset `from`: it stops at the end of
\* the file or once BATCH_SIZE lines have been processed (the break).
RECURSIVE ProcessLines(_, _, _, _)
ProcessLines(st, lines, from, lines_processed) ==
    IF from + lines_processed >= Len(lines) \/ lines_processed >= BATCH_SIZE
    THEN st
    ELSE ProcessLines(ProcessLine(st, lines[from + lines_processed + 1]),
                      lines, from, lines_processed + 1)

\* f.tell() at line 245.  Iterating a text file with `for line in f`
\* disables tell() until the iterator reaches the end of the file; after the
\* break it raises OSError("telling position disabled by next() call").
TellRaises(lines_processed) == lines_processed >= BATCH_SIZE

ZeroStats == [processed |-> 0, alerts |-> 0, duplicates |-> 0, errors |-> 0]

NoStateFile == [exists |-> FALSE, last_position |-> 0, stats |-> ZeroStats]

\* History of the last process_new_lines, kept until update_host_events
\* ends.  first: the poll is the first of a processor started after a stop
\* between two iterations; fresh: the lines after the offset the stopped
\* processor had reached.
NoPoll ==
    [done |-> FALSE, readLines |-> << >>, outcomes |-> << >>,
     statsBefore |-> ZeroStats, posBefore |-> 0, sizeAtPoll |-> 0,
     tellRaised |-> FALSE, first |-> FALSE, fresh |-> << >>]

IdsInit ==
    /\ eve = << >>
    /\ last_position = 0
    /\ alert_cache = EmptyCache
    /\ stats = ZeroStats
    /\ stateFile = NoStateFile
    /\ hostEvents = << >>
    /\ now = 0
    /\ pc = "poll"
    /\ new_alerts = << >>
    /\ idsHist = [poll |-> NoPoll, posChanged |-> FALSE,
                  accTail |-> << >>, accCount |-> 0, triples |-> {},
                  afterCleanStop |-> FALSE, stopSize |-> 0,
                  raised |-> FALSE]
    /\ idsBudget = [restarts |-> 0, truncates |-> 0]

\* SuricataProcessor.process_new_lines, called by monitor_suricata (line 289)
ProcessNewLines ==
    LET current_size == Len(eve)
        start == IF current_size < last_position THEN 0 ELSE last_position
        st0   == [cache |-> alert_cache, stats |-> stats, out |-> << >>,
                  outcomes |-> << >>, triples |-> idsHist.triples]
        st    == IF current_size = start THEN st0
                 ELSE ProcessLines(st0, eve, start, 0)
        n     == Len(st.outcomes)
        raised == TellRaises(n)
        newpos == IF raised THEN start ELSE start + n
        returned == IF raised THEN << >> ELSE st.out
    IN  /\ pc = "poll"
        /\ st.stats.processed <= MaxProcessed
        /\ alert_cache' = st.cache
        /\ stats' = IF raised THEN [st.stats EXCEPT !.errors = @ + 1]
                    ELSE st.stats
        /\ last_position' = newpos
        /\ new_alerts' = returned
        /\ pc' = "update"
        /\ idsHist' = [idsHist EXCEPT
               !.poll = [done |-> TRUE,
                         readLines |-> SubSeq(eve, start + 1, start + n),
                         outcomes |-> st.outcomes, statsBefore |-> stats,
                         posBefore |-> last_position,
                         sizeAtPoll |-> current_size, tellRaised |-> raised,
                         first |-> idsHist.afterCleanStop,
                         fresh |-> IF idsHist.afterCleanStop
                                   THEN SubSeq(eve, idsHist.stopSize + 1, Len(eve))
                                   ELSE << >>],
               !.posChanged = (newpos # last_position),
               !.accTail = LastN(@ \o returned, MAX_EVENTS),
               !.accCount = IF @ + Len(returned) > MAX_EVENTS
                            THEN MAX_EVENTS + 1 ELSE @ + Len(returned),
               !.triples = st.triples,
               !.afterCleanStop = FALSE,
               !.raised = @ \/ raised]
        /\ UNCHANGED <<eve, stateFile, hostEvents, now, idsBudget>>
        /\ UNCHANGED exceptIds

\* SuricataProcessor.cleanup_old_alerts, the cache part (lines 172-182).
\* cutoff is offset-naive (utcnow); comparing it with an offset-aware cached
\* timestamp raises TypeError before any key is deleted.
CleanupRaises(cache) == \E k \in DOMAIN cache : cache[k].aware

CleanupCache(cache, t) ==
    LET keep == {k \in DOMAIN cache : ~(cache[k].timestamp < t - DEDUP_WINDOW)}
    IN  [k \in keep |-> cache[k]]

\* cleanup_old_alerts, the value it returns (line 185)
CleanupEvents(events) == LastN(events, MAX_EVENTS)

\* SuricataProcessor.save_state: the document written to suricata_state.json
SavedState(pos, st) == [exists |-> TRUE, last_position |-> pos, stats |-> st]

\* SuricataProcessor.update_host_events(new_alerts), called by
\* monitor_suricata (line 290); an exception ends the iteration in the
\* loop's handler (lines 307-315).
UpdateHostEvents ==
    /\ pc = "update"
    /\ pc' = "poll"
    /\ IF new_alerts = << >>
       THEN /\ idsHist' = [idsHist EXCEPT !.poll = NoPoll]
            /\ UNCHANGED <<alert_cache, hostEvents, stateFile>>
       ELSE IF CleanupRaises(alert_cache)
       THEN /\ idsHist' = [idsHist EXCEPT !.poll = NoPoll, !.raised = TRUE]
            /\ UNCHANGED <<alert_cache, hostEvents, stateFile>>
       ELSE /\ alert_cache' = CleanupCache(alert_cache, now)
            /\ hostEvents' = CleanupEvents(hostEvents \o new_alerts)
            /\ stateFile' = SavedState(last_position, stats)
            /\ idsHist' = [idsHist EXCEPT !.poll = NoPoll]
    /\ UNCHANGED <<eve, last_position, stats, now, new_alerts, idsBudget>>
    /\ UNCHANGED exceptIds

\* The process stops and monitor_suricata starts again:
\* SuricataProcessor.__init__ and load_state
IdsRestart ==
    /\ idsBudget.restarts < MaxRestarts
    /\ idsBudget' = [idsBudget EXCEPT !.restarts = @ + 1]
    /\ last_position' = stateFile.last_position
    /\ stats' = stateFile.stats
    /\ alert_cache' = EmptyCache
    /\ new_alerts' = << >>
    /\ pc' = "poll"
    /\ idsHist' = [idsHist EXCEPT !.poll = NoPoll, !.posChanged = FALSE,
                                  !.triples = {},
                                  !.afterCleanStop = (pc = "poll"),
                                  !.stopSize = last_position]
    /\ UNCHANGED <<eve, stateFile, hostEvents, now>>
    /\ UNCHANGED exceptIds

\* One line is appended to eve.json.  update_host_events does not read
\* eve.json, so an append (or a truncation) during it is taken after it.
EveAppend(line) ==
    /\ pc = "poll"
    /\ Len(eve) < MaxLines
    /\ eve' = Append(eve, line)
    /\ UNCHANGED <<last_position, alert_cache, stats, stateFile, hostEvents,
                   now, pc, new_alerts, idsHist, idsBudget>>
    /\ UNCHANGED exceptIds

TailAppend == \E line \in TailLines(now) : EveAppend(line)

DedupAppend == \E line \in DedupLines(now) : EveAppend(line)

\* eve.json is rotated or truncated
EveTruncate ==
    /\ pc = "poll"
    /\ eve # << >>
    /\ idsBudget.truncates < MaxTruncates
    /\ idsBudget' = [idsBudget EXCEPT !.truncates = @ + 1]
    /\ eve' = << >>
    /\ UNCHANGED <<last_position, alert_cache, stats, stateFile, hostEvents,
                   now, pc, new_alerts, idsHist>>
    /\ UNCHANGED exceptIds

\* eve.json shrinks to its first lines: a truncation that keeps the start of
\* the file, or a rotation that puts lines already read back in place
EveCutBack ==
    /\ pc = "poll"
    /\ idsBudget.truncates < MaxTruncates
    /\ idsBudget' = [idsBudget EXCEPT !.truncates = @ + 1]
    /\ \E kept \in 1..(Len(eve) - 1) : eve' = SubSeq(eve, 1, kept)
    /\ UNCHANGED <<last_position, alert_cache, stats, stateFile, hostEvents,
                   now, pc, new_alerts, idsHist>>
    /\ UNCHANGED exceptIds

\* The lines appended at time t while the order of the stored events is
\* under study: alerts of two hosts, stamped with the time of writing
OrderLines(t) ==
    {AlertLine("10.0.0.1", 1, t, FALSE), AlertLine("10.0.0.2", 1, t, FALSE)}

OrderAppend == \E line \in OrderLines(now) : EveAppend(line)

SeverityAppend == \E line \in SeverityLines(now) : EveAppend(line)

\* time passes, long enough for a cache entry to fall out of the window
OrderTick ==
    /\ now < MaxOrderNow
    /\ now' = now + 1
    /\ UNCHANGED <<eve, last_position, alert_cache, stats, stateFile,
                   hostEvents, pc, new_alerts, idsHist, idsBudget>>
    /\ UNCHANGED exceptIds

\* time passes
IdsTick ==
    /\ now < MaxNow
    /\ now' = now + 1
    /\ UNCHANGED <<eve, last_position, alert_cache, stats, stateFile,
                   hostEvents, pc, new_alerts, idsHist, idsBudget>>
    /\ UNCHANGED exceptIds

(***************************************************************************)
(* One file save, step by step: generator.py save_json and                 *)
(* suricata_ingest.py save_json_atomic                                     *)
(***************************************************************************)
\* documents that may be saved
NDocs == 2
\* pieces in which json.dump's output reaches the file
DocLen == 2

Docs == 1..NDocs

DestPath == "live_alerts.json"

\* A save that opens the destination itself
TmpPathInPlace(path) == path

\* tmp = path + ".tmp"
TmpPath(path) == path \o ".tmp"

Paths == {DestPath, DestPath \o ".tmp"}

\* The content of a file: the first `written` pieces of document `doc`
Absent == [exists |-> FALSE, doc |-> 0, written |-> 0]
Empty  == [exists |-> TRUE, doc |-> 0, written |-> 0]
Piece(d, n) == [exists |-> TRUE, doc |-> d, written |-> n]
Whole(d) == Piece(d, DocLen)

\* load_json's json.load succeeds on the content
ValidJson(content) == content.exists /\ content.written = DocLen

SaveInit ==
    /\ files = [p \in Paths |-> Absent]
    /\ savePc = "idle"
    /\ saveObj = 0
    /\ saveHist = [fn |-> "", before |-> Absent, crashed |-> FALSE,
                   raised |-> FALSE, read |-> Absent, readOk |-> TRUE]

\* fn(path, data) is called
SaveCall(fn, d) ==
    /\ savePc = "idle"
    /\ savePc' = "open"
    /\ saveObj' = d
    /\ saveHist' = [saveHist EXCEPT !.fn = fn, !.before = files[DestPath],
                                    !.crashed = FALSE, !.raised = FALSE]
    /\ UNCHANGED files
    /\ UNCHANGED exceptSave

SaveCallStep ==
    \E fn \in {"save_json", "save_json_atomic"} : \E d \in Docs : SaveCall(fn, d)

\* open(tmp, "w"): the temporary file is created or truncated
SaveOpen ==
    /\ savePc = "open"
    /\ files' = [files EXCEPT ![TmpPath(DestPath)] = Empty]
    /\ savePc' = "dump"
    /\ UNCHANGED <<saveObj, saveHist>>
    /\ UNCHANGED exceptSave

\* json.dump(obj, f, indent=2): one more piece reaches the file
SaveDump ==
    /\ savePc = "dump"
    /\ files[TmpPath(DestPath)].written < DocLen
    /\ files' = [files EXCEPT ![TmpPath(DestPath)] =
                                  Piece(saveObj, @.written + 1)]
    /\ UNCHANGED <<savePc, saveObj, saveHist>>
    /\ UNCHANGED exceptSave

\* json.dump raises (a value json cannot serialise): the with block closes
\* the file; save_json lets the exception out, save_json_atomic prints it
SaveDumpRaises ==
    /\ savePc = "dump"
    /\ files[TmpPath(DestPath)].written < DocLen
    /\ savePc' = "idle"
    /\ saveHist' = [saveHist EXCEPT !.raised = (saveHist.fn = "save_json")]
    /\ UNCHANGED <<files, saveObj>>
    /\ UNCHANGED exceptSave

\* f.flush(); os.fsync(f.fileno()); the with block closes the file
SaveSync ==
    /\ savePc = "dump"
    /\ files[TmpPath(DestPath)].written = DocLen
    /\ savePc' = "replace"
    /\ UNCHANGED <<files, saveObj, saveHist>>
    /\ UNCHANGED exceptSave

\* os.replace(tmp, path)
SaveReplace ==
    /\ savePc = "replace"
    /\ files' = [p \in Paths |->
                    IF p = DestPath THEN files[TmpPath(DestPath)]
                    ELSE IF p = TmpPath(DestPath) THEN Absent
                    ELSE files[p]]
    /\ savePc' = "idle"
    /\ UNCHANGED <<saveObj, saveHist>>
    /\ UNCHANGED exceptSave

\* The writing process is killed inside the call; the files stay as they are
SaveCrash ==
    /\ savePc # "idle"
    /\ savePc' = "idle"
    /\ saveHist' = [saveHist EXCEPT !.crashed = TRUE]
    /\ UNCHANGED <<files, saveObj>>
    /\ UNCHANGED exceptSave

\* Another process reads the destination
SaveRead ==
    /\ saveHist' = [saveHist EXCEPT
           !.read = files[DestPath],
           !.readOk = \/ files[DestPath] = saveHist.before
                      \/ files[DestPath] = Whole(saveObj)]
    /\ UNCHANGED <<files, savePc, saveObj>>
    /\ UNCHANGED exceptSave

(***************************************************************************)
(* The output files and their writers: generator.py run, suricata_ingest   *)
(* update_host_events, app.py inject_threat                                *)
(***************************************************************************)
\* retention.max_feed_items of config.yaml (generator.py MAX_FEED), scaled
MAX_FEED == 2
\* calls of inject_threat, cycles of run, calls of update_host_events
MaxInjects == 2
MaxGenCycles == 2
MaxTailerUpdates == 2

LIVE_ALERTS_FILE == "live_alerts.json"
LIVE_FEED_FILE == "live_feed_data.json"
HOST_EVENTS_FILE == "host_isolation_events.json"
OutputFiles == {LIVE_ALERTS_FILE, LIVE_FEED_FILE, HOST_EVENTS_FILE}

\* The ingest loop that owns an output file
Owner(f) == IF f = HOST_EVENTS_FILE THEN "suricata" ELSE "generator"

\* The n-th entry a process makes
Entry(by, n) == [by |-> by, n |-> n]

\* inject_threat's threat types: the two branches, and a type of neither
ThreatTypes == {"gps_spoofing", "jamming", "malware", "ddos", "other"}

DashInit ==
    /\ store = [f \in OutputFiles |-> << >>]
    /\ writers = [f \in OutputFiles |-> {}]
    /\ injPc = "idle"
    /\ injLocal = << >>
    /\ genMem = [feed |-> << >>, alerts |-> << >>]
    /\ genPc = "idle"
    /\ uhePc = "idle"
    /\ uheLocal = << >>
    /\ dashBudget = [dashboard |-> 0, generator |-> 0, suricata |-> 0]

\* inject_threat(threat_type): the alert is generated and the branch's first
\* file is loaded
InjectThreat(threat_type) ==
    /\ injPc = "idle"
    /\ dashBudget.dashboard < MaxInjects
    /\ dashBudget' = [dashBudget EXCEPT !.dashboard = @ + 1]
    /\ IF threat_type \in {"gps_spoofing", "jamming"}
       THEN injPc' = "alerts_loaded" /\ injLocal' = store[LIVE_ALERTS_FILE]
       ELSE IF threat_type \in {"malware", "ddos"}
       THEN injPc' = "events_loaded" /\ injLocal' = store[HOST_EVENTS_FILE]
       ELSE injPc' = "idle" /\ injLocal' = injLocal
    /\ UNCHANGED <<store, writers, genMem, genPc, uhePc, uheLocal>>
    /\ UNCHANGED exceptDash

InjectThreatStep == \E threat_type \in ThreatTypes : InjectThreat(threat_type)

\* alerts.append(alert); save_json_atomic(LIVE_ALERTS_FILE, alerts)
InjectSaveAlerts ==
    /\ injPc = "alerts_loaded"
    /\ store' = [store EXCEPT ![LIVE_ALERTS_FILE] =
                    Append(injLocal, Entry("dashboard", dashBudget.dashboard))]
    /\ writers' = [writers EXCEPT ![LIVE_ALERTS_FILE] = @ \cup {"dashboard"}]
    /\ injPc' = "feed"
    /\ UNCHANGED <<injLocal, genMem, genPc, uhePc, uheLocal, dashBudget>>
    /\ UNCHANGED exceptDash

\* feed_data = load_json(LIVE_FEED_FILE, [])
InjectLoadFeed ==
    /\ injPc = "feed"
    /\ injLocal' = store[LIVE_FEED_FILE]
    /\ injPc' = "feed_loaded"
    /\ UNCHANGED <<store, writers, genMem, genPc, uhePc, uheLocal, dashBudget>>
    /\ UNCHANGED exceptDash

\* feed_data.append(feed_entry); save_json_atomic(LIVE_FEED_FILE, feed_data)
InjectSaveFeed ==
    /\ injPc = "feed_loaded"
    /\ store' = [store EXCEPT ![LIVE_FEED_FILE] =
                    Append(injLocal, Entry("dashboard", dashBudget.dashboard))]
    /\ writers' = [writers EXCEPT ![LIVE_FEED_FILE] = @ \cup {"dashboard"}]
    /\ injPc' = "idle"
    /\ UNCHANGED <<injLocal, genMem, genPc, uhePc, uheLocal, dashBudget>>
    /\ UNCHANGED exceptDash

\* events.append(alert); save_json_atomic(HOST_EVENTS_FILE, events)
InjectSaveEvents ==
    /\ injPc = "events_loaded"
    /\ store' = [store EXCEPT ![HOST_EVENTS_FILE] =
                    Append(injLocal, Entry("dashboard", dashBudget.dashboard))]
    /\ writers' = [writers EXCEPT ![HOST_EVENTS_FILE] = @ \cup {"dashboard"}]
    /\ injPc' = "idle"
    /\ UNCHANGED <<injLocal, genMem, genPc, uhePc, uheLocal, dashBudget>>
    /\ UNCHANGED exceptDash

\* One cycle of generator.run up to the first save of line 208: the items
\* go to `feed`, the cycle's alert (if any) to `alerts`, both capped, and
\* save_json(FEED_PATH, feed) writes the feed
GenCycle(withAlert) ==
    /\ genPc = "idle"
    /\ dashBudget.generator < MaxGenCycles
    /\ dashBudget' = [dashBudget EXCEPT !.generator = @ + 1]
    /\ genMem' =
         [feed |-> LastN(Append(genMem.feed,
                                Entry("generator", dashBudget.generator + 1)),
                         MAX_FEED),
          alerts |-> IF withAlert
                     THEN LastN(Append(genMem.alerts,
                                       Entry("generator",
                                             dashBudget.generator + 1)),
                                MAX_ALERTS)
                     ELSE genMem.alerts]
    /\ store' = [store EXCEPT ![LIVE_FEED_FILE] = genMem'.feed]
    /\ writers' = [writers EXCEPT ![LIVE_FEED_FILE] = @ \cup {"generator"}]
    /\ genPc' = "save_alerts"
    /\ UNCHANGED <<injPc, injLocal, uhePc, uheLocal>>
    /\ UNCHANGED exceptDash

GenCycleStep == \E withAlert \in BOOLEAN : GenCycle(withAlert)

\* save_json(ALERTS_PATH, alerts), the second save of line 208
GenSaveAlerts ==
    /\ genPc = "save_alerts"
    /\ store' = [store EXCEPT ![LIVE_ALERTS_FILE] = genMem.alerts]
    /\ writers' = [writers EXCEPT ![LIVE_ALERTS_FILE] = @ \cup {"generator"}]
    /\ genPc' = "idle"
    /\ UNCHANGED <<injPc, injLocal, genMem, uhePc, uheLocal, dashBudget>>
    /\ UNCHANGED exceptDash

\* update_host_events(new_alerts) with one new alert:
\* events = load_json(HOST_EVENTS_PATH, []); events.extend(new_alerts)
TailerLoad ==
    /\ uhePc = "idle"
    /\ dashBudget.suricata < MaxTailerUpdates
    /\ dashBudget' = [dashBudget EXCEPT !.suricata = @ + 1]
    /\ uheLocal' = Append(store[HOST_EVENTS_FILE],
                          Entry("suricata", dashBudget.suricata + 1))
    /\ uhePc' = "loaded"
    /\ UNCHANGED <<store, writers, injPc, injLocal, genMem, genPc>>
    /\ UNCHANGED exceptDash

\* events = self.cleanup_old_alerts(events);
\* save_json_atomic(HOST_EVENTS_PATH, events)
TailerSave ==
    /\ uhePc = "loaded"
    /\ store' = [store EXCEPT ![HOST_EVENTS_FILE] = CleanupEvents(uheLocal)]
    /\ writers' = [writers EXCEPT ![HOST_EVENTS_FILE] = @ \cup {"suricata"}]
    /\ uhePc' = "idle"
    /\ UNCHANGED <<injPc, injLocal, genMem, genPc, uheLocal, dashBudget>>
    /\ UNCHANGED exceptDash

(***************************************************************************)
(* The polling loops: what an iteration that raises does to the loop       *)
(***************************************************************************)
\* errors run_enhanced_monitor counts before the model stops telling them
\* apart
MaxErrorsCounted == 2

\* monitor_suricata: max_consecutive_errors = 10
max_consecutive_errors == 10

\* A budget that lets one more failure through
BudgetSpentLate(n) == n > max_consecutive_errors

\* if consecutive_errors >= max_consecutive_errors: break
BudgetSpent(n) == n >= max_consecutive_errors

\* streak: the failing iterations since the last successful one;
\* prevStreak: those between the last two successful ones (the streak the
\* last success ended)
LoopInit ==
    /\ consecutive_errors = 0
    /\ monPc = "running"
    /\ monHist = [streak |-> 0, prevStreak |-> 0]
    /\ enhPc = "running"
    /\ enhErrors = 0
    /\ enhLast = [outcome |-> "none", odd |-> FALSE]
    /\ runPc = "running"

\* An iteration of monitor_suricata in which neither process_new_lines nor
\* update_host_events raises
MonitorIterationOk ==
    /\ monPc = "running"
    /\ consecutive_errors' = 0
    /\ monHist' = [streak |-> 0, prevStreak |-> monHist.streak]
    /\ UNCHANGED <<monPc, enhPc, enhErrors, enhLast, runPc>>
    /\ UNCHANGED exceptLoop

\* An iteration of monitor_suricata whose body raises an Exception
MonitorIterationRaises ==
    /\ monPc = "running"
    /\ consecutive_errors' = consecutive_errors + 1
    /\ monPc' = IF BudgetSpent(consecutive_errors') THEN "exited" ELSE "running"
    /\ monHist' = [monHist EXCEPT !.streak = @ + 1]
    /\ UNCHANGED <<enhPc, enhErrors, enhLast, runPc>>
    /\ UNCHANGED exceptLoop

\* except KeyboardInterrupt: break
MonitorInterrupted ==
    /\ monPc = "running"
    /\ monPc' = "interrupted"
    /\ UNCHANGED <<consecutive_errors, monHist, enhPc, enhErrors, enhLast, runPc>>
    /\ UNCHANGED exceptLoop

\* An iteration of run_enhanced_monitor whose body does not raise
EnhancedIterationOk ==
    /\ enhPc = "running"
    /\ enhLast' = [outcome |-> "ok", odd |-> ~enhLast.odd]
    /\ UNCHANGED <<consecutive_errors, monPc, monHist, enhPc, enhErrors, runPc>>
    /\ UNCHANGED exceptLoop

\* An iteration of run_enhanced_monitor whose body raises an Exception:
\* stats.total_errors += 1; time.sleep(5); the loop goes on.  (The model
\* stops counting at MaxErrorsCounted; nothing reads the counter.)
EnhancedIterationRaises ==
    /\ enhPc = "running"
    /\ enhErrors' = IF enhErrors < MaxErrorsCounted THEN enhErrors + 1
                    ELSE enhErrors
    /\ enhLast' = [outcome |-> "raised", odd |-> ~enhLast.odd]
    /\ UNCHANGED <<consecutive_errors, monPc, monHist, enhPc, runPc>>
    /\ UNCHANGED exceptLoop

\* except KeyboardInterrupt: break
EnhancedInterrupted ==
    /\ enhPc = "running"
    /\ enhPc' = "interrupted"
    /\ UNCHANGED <<consecutive_errors, monPc, monHist, enhErrors, enhLast,
                   runPc>>
    /\ UNCHANGED exceptLoop

\* An iteration of generator.run's `while True` that completes
RunIterationOk ==
    /\ runPc = "running"
    /\ UNCHANGED loopVars
    /\ UNCHANGED exceptLoop

\* An iteration of generator.run in which a statement raises (save_json's
\* open or os.replace, for one): the loop body is inside no try, the
\* exception leaves run
RunIterationRaises ==
    /\ runPc = "running"
    /\ runPc' = "raised"
    /\ UNCHANGED <<consecutive_errors, monPc, monHist, enhPc, enhErrors,
                   enhLast>>
    /\ UNCHANGED exceptLoop

(***************************************************************************)
(* The space-weather loops: nasa_ingest.py run, noaa_swpc_ingest.py run    *)
(***************************************************************************)
\* nasa.events_per_hour_threshold of config.yaml, scaled
RateThreshold == 2
\* items one successful DONKI request returns in the model
MaxApiItems == 1

\* The endpoints run fetches, in its order (three of FLR, CME, GST, SEP,
\* RBE stand for the five)
Endpoints == <<"FLR", "CME", "GST">>

\* An entry of the feed: {"event_type": label, "timestamp": ..., "raw": it}.
\* Of raw the model keeps what it is: an event of the API ("api") or, after
\* a fallback, an entry of the feed ("feed").
FeedItem(label, raw) == [event_type |-> label, raw |-> raw]

\* An event as the DONKI API returns it for an endpoint (it has no raw)
ApiEvent(endpoint) == [event_type |-> endpoint, raw |-> "none"]

\* What one request can do: fail (requests raises, raise_for_status
\* raises, or no API key is set) or return n events
FetchOutcomes ==
    {[ok |-> FALSE, n |-> 0]} \cup {[ok |-> TRUE, n |-> n] : n \in 0..MaxApiItems}

\* A fallback that returns nothing
fetch_or_nothing(endpoint, outcome, file) ==
    IF outcome.ok THEN [i \in 1..outcome.n |-> ApiEvent(endpoint)] ELSE << >>

\* [d for d in data if d.get("event_type")==endpoint]
RECURSIVE CachedOf(_, _)
CachedOf(data, endpoint) ==
    IF data = << >> THEN << >>
    ELSE IF Head(data).event_type = endpoint
         THEN <<Head(data)>> \o CachedOf(Tail(data), endpoint)
         ELSE CachedOf(Tail(data), endpoint)

\* fetch_or_fallback(endpoint, params): the events of the API, or the
\* entries of the local feed file with that event_type
fetch_or_fallback(endpoint, outcome, file) ==
    IF outcome.ok THEN [i \in 1..outcome.n |-> ApiEvent(endpoint)]
    ELSE CachedOf(file, endpoint)

\* add_items(label, items)
add_items(label, items) ==
    [i \in 1..Len(items) |->
        FeedItem(label, IF items[i].raw = "none" THEN "api" ELSE "feed")]

NoFetch == [endpoint |-> "", failed |-> FALSE, items |-> << >>,
            anyFailed |-> FALSE, allFailed |-> FALSE, stored |-> FALSE,
            polls |-> << >>]

FetchInit ==
    /\ donkiPc = "fetch"
    /\ donkiNext = 1
    /\ new_items = << >>
    /\ donkiFeed = << >>
    /\ donkiAlerts = 0
    /\ nasaFeedFile = << >>
    /\ donkiHist = NoFetch
    /\ swpcPc = "running"
    /\ swpcFile = "absent"
    /\ swpcHist = [fetchFailed |-> FALSE, sample |-> FALSE, done |-> FALSE]

\* One fetch_or_fallback call of an iteration (lines 81-85) and its
\* add_items (line 93)
DonkiFetch(outcome) ==
    /\ donkiPc = "fetch"
    /\ LET endpoint == Endpoints[donkiNext]
           items == fetch_or_fallback(endpoint, outcome, nasaFeedFile)
       IN /\ new_items' = new_items \o add_items(endpoint, items)
          /\ donkiHist' = [endpoint |-> endpoint, failed |-> ~outcome.ok,
                           items |-> items,
                           anyFailed |-> (donkiNext > 1 /\ donkiHist.anyFailed)
                                             \/ ~outcome.ok,
                           allFailed |-> (donkiNext = 1 \/ donkiHist.allFailed)
                                             /\ ~outcome.ok,
                           stored |-> FALSE,
                           polls |-> donkiHist.polls]
    /\ donkiNext' = IF donkiNext = Len(Endpoints) THEN 1 ELSE donkiNext + 1
    /\ donkiPc' = IF donkiNext = Len(Endpoints) THEN "store" ELSE "fetch"
    /\ UNCHANGED <<donkiFeed, donkiAlerts, nasaFeedFile, swpcPc, swpcFile,
                   swpcHist>>
    /\ UNCHANGED exceptFetch

DonkiFetchStep == \E outcome \in FetchOutcomes : DonkiFetch(outcome)

\* The rest of the iteration (lines 96-103): feed extended and capped, the
\* rate alert, the two save_json calls
DonkiStore ==
    /\ donkiPc = "store"
    /\ donkiFeed' = LastN(donkiFeed \o new_items, MAX_FEED)
    /\ donkiAlerts' = IF Len(new_items) >= RateThreshold
                      THEN (IF donkiAlerts < MAX_ALERTS THEN donkiAlerts + 1
                            ELSE MAX_ALERTS)
                      ELSE donkiAlerts
    /\ nasaFeedFile' = donkiFeed'
    /\ new_items' = << >>
    /\ donkiHist' = [donkiHist EXCEPT
           !.stored = TRUE,
           !.polls = LastN(Append(@,
                         [appended |-> Len(new_items),
                          fallback |-> donkiHist.allFailed,
                          alert |-> Len(new_items) >= RateThreshold]), 2)]
    /\ donkiPc' = "fetch"
    /\ UNCHANGED <<donkiNext, swpcPc, swpcFile, swpcHist>>
    /\ UNCHANGED exceptFetch

\* save_json raises at line 103 (open or os.replace fails): the loop body
\* is inside no try, the exception leaves run
DonkiStoreRaises ==
    /\ donkiPc = "store"
    /\ donkiFeed' = LastN(donkiFeed \o new_items, MAX_FEED)
    /\ donkiPc' = "raised"
    /\ UNCHANGED <<donkiNext, new_items, donkiAlerts, nasaFeedFile, donkiHist,
                   swpcPc, swpcFile, swpcHist>>
    /\ UNCHANGED exceptFetch

\* fetch_swpc(): the summary, or None when the request fails
fetch_swpc(ok) == IF ok THEN "summary" ELSE "None"

\* load_json(FALLBACK, {}): the sample file or the default
LoadFallback(sample) == IF sample THEN "sample" ELSE "{}"

\* One iteration of noaa_swpc_ingest.run
SwpcIteration(ok, sample) ==
    /\ swpcPc = "running"
    /\ LET data == fetch_swpc(ok)
       IN swpcFile' = IF data = "None" THEN LoadFallback(sample) ELSE data
    /\ swpcHist' = [fetchFailed |-> ~ok, sample |-> sample, done |-> TRUE]
    /\ UNCHANGED <<swpcPc, donkiPc, donkiNext, new_items, donkiFeed,
                   donkiAlerts, nasaFeedFile, donkiHist>>
    /\ UNCHANGED exceptFetch

SwpcIterationStep ==
    \E ok \in BOOLEAN : \E sample \in BOOLEAN : SwpcIteration(ok, sample)

\* save_json(LIVE_SWPC_PATH, data) raises: the exception leaves run
SwpcIterationRaises ==
    /\ swpcPc = "running"
    /\ swpcPc' = "raised"
    /\ UNCHANGED <<swpcFile, swpcHist, donkiPc, donkiNext, new_items,
                   donkiFeed, donkiAlerts, nasaFeedFile, donkiHist>>
    /\ UNCHANGED exceptFetch

(***************************************************************************)
(* The dashboard's overall threat level: app.py threat_level               *)
(***************************************************************************)
\* alerts the three lists shown by the dashboard may hold together
MaxShown == 3

\* The severities of the alerts read by the dashboard: the five of `order`,
\* one that `order` does not know, and alerts without the key (NoSeverity)
Severities == {"INFO", "LOW", "MEDIUM", "HIGH", "CRITICAL", "WARN"}

ShownAlert(sev) == [source |-> "any", severity |-> sev]
NoSeverity == [source |-> "any"]

ShownAlerts == {ShownAlert(v) : v \in Severities} \cup {NoSeverity}

\* order = {"INFO":0,"LOW":1,"MEDIUM":2,"HIGH":3,"CRITICAL":4}
order == [INFO |-> 0, LOW |-> 1, MEDIUM |-> 2, HIGH |-> 3, CRITICAL |-> 4]

\* a.get("severity", "LOW")
GetSeverity(a) == IF "severity" \in DOMAIN a THEN a.severity ELSE "LOW"

\* order.get(a.get("severity","LOW"), 1), the key of max
SeverityKey(a) ==
    IF GetSeverity(a) \in DOMAIN order THEN order[GetSeverity(a)] ELSE 1

\* max that keeps the last of the members with the greatest key
RECURSIVE py_max_last(_, _, _)
py_max_last(list, i, best) ==
    IF i > Len(list) THEN best
    ELSE py_max_last(list, i + 1,
                     IF SeverityKey(list[i]) >= SeverityKey(best)
                     THEN list[i] ELSE best)

\* max(all_alerts, key=...): the members are visited in order and a member
\* replaces the best so far only when its key is greater
RECURSIVE py_max(_, _, _)
py_max(list, i, best) ==
    IF i > Len(list) THEN best
    ELSE py_max(list, i + 1,
                IF SeverityKey(list[i]) > SeverityKey(best)
                THEN list[i] ELSE best)

\* {"CRITICAL":"crit","HIGH":"high","MEDIUM":"med","LOW":"low"}.get(sev,"ok")
LevelKey(sev) ==
    CASE sev = "CRITICAL" -> "crit"
      [] sev = "HIGH"     -> "high"
      [] sev = "MEDIUM"   -> "med"
      [] sev = "LOW"      -> "low"
      [] OTHER            -> "ok"

\* {"CRITICAL":"CRITICAL THREAT",...,"INFO":"LOW RISK"}.get(sev,"LOW RISK")
LevelLabel(sev) ==
    CASE sev = "CRITICAL" -> "CRITICAL THREAT"
      [] sev = "HIGH"     -> "HIGH THREAT"
      [] sev = "MEDIUM"   -> "ELEVATED"
      [] OTHER            -> "LOW RISK"

\* threat_level(all_alerts)
threat_level(all_alerts) ==
    IF all_alerts = << >> THEN <<"ok", "All Systems Normal">>
    ELSE LET sev == GetSeverity(py_max(all_alerts, 2, all_alerts[1]))
         IN  <<LevelKey(sev), LevelLabel(sev)>>

CardInit ==
    /\ merged_alerts = << >>
    /\ sev_key = threat_level(<< >>)[1]
    /\ sev_label = threat_level(<< >>)[2]

\* One run of the dashboard script from the merge to the status card
\* (app.py lines 785-791) over the three lists it has loaded
RunScript(sim_alerts, nasa_alerts, host_events) ==
    LET merged == sim_alerts \o nasa_alerts \o host_events
    IN  /\ merged_alerts' = merged
        /\ sev_key' = threat_level(merged)[1]
        /\ sev_label' = threat_level(merged)[2]
        /\ UNCHANGED exceptCard

\* The script runs when the files are empty, or hold one alert more than at
\* the last run: in the first list merged, or in the last list merged
RunScriptStep ==
    \/ RunScript(<< >>, << >>, << >>)
    \/ /\ Len(merged_alerts) < MaxShown
       /\ \E a \in ShownAlerts :
              \/ RunScript(<<a>>, merged_alerts, << >>)
              \/ RunScript(merged_alerts, << >>, <<a>>)

(***************************************************************************)
(* Reading a JSON file: generator.py load_json, suricata_ingest.py         *)
(* load_json, isolation_controller.py _load_state                          *)
(***************************************************************************)
\* The content a file may be found with: no file, an empty file, the start
\* of a document, a whole document
DiskContents ==
    {Absent, Empty} \cup {Piece(d, n) : d \in Docs, n \in 1..DocLen}

\* The readers, and the defaults their callers pass ([] or {}); _load_state
\* has no such parameter and returns {}
Readers == {"generator.load_json", "suricata_ingest.load_json", "_load_state"}
Defaults(fn) == IF fn = "_load_state" THEN {"{}"} ELSE {"[]", "{}"}

Returned(value) == [raised |-> FALSE, value |-> value]
Raised(exc) == [raised |-> TRUE, value |-> exc]

\* os.path.exists(path)
path_exists(content) == content.exists

\* what json.load returns for a whole document
Parsed(content) == "doc" \o ToString(content.doc)

\* with open(path, "r") as f: return json.load(f).  The file may have been
\* removed since os.path.exists was called (gone).
open_and_load(content, gone) ==
    IF gone \/ ~content.exists THEN Raised("FileNotFoundError")
    ELSE IF ~ValidJson(content) THEN Raised("JSONDecodeError")
    ELSE Returned(Parsed(content))

\* load_json without its except clause
load_json_unguarded(content, gone, default) ==
    IF ~path_exists(content) THEN Returned(default)
    ELSE open_and_load(content, gone)

\* load_json(path, default) of generator.py and suricata_ingest.py: the
\* whole body is inside try / except Exception
load_json(content, gone, default) ==
    LET r == IF ~path_exists(content) THEN Returned(default)
             ELSE open_and_load(content, gone)
    IN  IF r.raised THEN Returned(default) ELSE r

\* _load_state(path): os.path.exists is tested before the try block
_load_state(content, gone) ==
    IF ~path_exists(content) THEN Returned("{}")
    ELSE LET r == open_and_load(content, gone)
         IN  IF r.raised THEN Returned("{}") ELSE r

NoCall == [fn |-> "", default |-> "", found |-> Absent, gone |-> FALSE,
           result |-> Returned("")]

LoadInit ==
    /\ diskFile = Absent
    /\ loaded = NoCall

\* The file is written, damaged or removed by something else
DiskChange ==
    /\ \E content \in DiskContents : diskFile' = content
    /\ diskFile' # diskFile
    /\ UNCHANGED loaded
    /\ UNCHANGED exceptLoad

\* One call of a reader
ReadCall(fn, default, gone) ==
    /\ loaded' = [fn |-> fn, default |-> default, found |-> diskFile,
                  gone |-> gone,
                  result |-> IF fn = "_load_state"
                             THEN _load_state(diskFile, gone)
                             ELSE load_json(diskFile, gone, default)]
    /\ UNCHANGED diskFile
    /\ UNCHANGED exceptLoad

ReadCallStep ==
    \E fn \in Readers : \E default \in Defaults(fn) : \E gone \in BOOLEAN :
        ReadCall(fn, default, gone /\ diskFile.exists)

(***************************************************************************)
(* The asset tailer: cybernova2/app/suricata_ingest.py monitor_alerts      *)
(***************************************************************************)
\* greatest number of lines of /var/log/suricata/eve.json
MaxLogLines == 3
\* greatest number of times the process is stopped
MaxStops == 2

\* The lines written to eve.json: an alert whose signature holds one of the
\* keywords of a CRITICAL alert, an alert with no keyword, and an event
\* that is not an alert
LogLines ==
    {[event_type |-> "alert", signature |-> "trojan"],
     [event_type |-> "alert", signature |-> "other"],
     [event_type |-> "flow", signature |-> ""]}

\* process_suricata_alert, the severity it gives (lines 122-131), over the
\* signatures of LogLines
SeverityOfSignature(signature) ==
    IF signature = "trojan" THEN "CRITICAL" ELSE "INFO"

\* save_alerts(alerts): the document written to data/alerts.json
save_alerts(list) == list

\* f.seek(0, os.SEEK_END) at line 213: the position the reading starts from
seek_end(log) == Len(log)

TailInit ==
    /\ eveLog = << >>
    /\ f_offset = seek_end(eveLog)
    /\ tailRunning = TRUE
    /\ allAlerts = << >>
    /\ alertsJson = << >>
    /\ handled = [i \in 1..MaxLogLines |-> 0]
    /\ tailBudget = 0

\* Suricata appends a line, whether monitor_alerts is running or not
LogAppend ==
    /\ Len(eveLog) < MaxLogLines
    /\ \E line \in LogLines : eveLog' = Append(eveLog, line)
    /\ UNCHANGED <<f_offset, tailRunning, allAlerts, alertsJson, handled,
                   tailBudget>>
    /\ UNCHANGED exceptTail

\* One turn of the while loop that reads a line (lines 218, 237-257): the
\* line is parsed, an event that is not an alert is passed over, an alert is
\* appended to all_alerts and saved at once when HIGH or CRITICAL
MonitorReadLine ==
    /\ tailRunning
    /\ f_offset < Len(eveLog)
    /\ f_offset' = f_offset + 1
    /\ LET line == eveLog[f_offset + 1] IN
       IF line.event_type # "alert"
       THEN UNCHANGED <<allAlerts, alertsJson, handled>>
       ELSE /\ allAlerts' = Append(allAlerts, f_offset + 1)
            /\ handled' = [handled EXCEPT ![f_offset + 1] = @ + 1]
            /\ alertsJson' =
                   IF SeverityOfSignature(line.signature) \in {"HIGH", "CRITICAL"}
                   THEN save_alerts(allAlerts')
                   ELSE alertsJson
    /\ UNCHANGED <<eveLog, tailRunning, tailBudget>>
    /\ UNCHANGED exceptTail

\* One turn of the while loop at the end of the file, when the periodic save
\* is due (lines 220-235)
MonitorIdleSave ==
    /\ tailRunning
    /\ f_offset = Len(eveLog)
    /\ alertsJson # save_alerts(allAlerts)
    /\ alertsJson' = save_alerts(allAlerts)
    /\ UNCHANGED <<eveLog, f_offset, tailRunning, allAlerts, handled,
                   tailBudget>>
    /\ UNCHANGED exceptTail

\* The process is stopped: by an interrupt, after which the finally block
\* saves (lines 262-269), or killed
MonitorStop(saved) ==
    /\ tailRunning
    /\ tailBudget < MaxStops
    /\ tailBudget' = tailBudget + 1
    /\ tailRunning' = FALSE
    /\ alertsJson' = IF saved THEN save_alerts(allAlerts) ELSE alertsJson
    /\ UNCHANGED <<eveLog, f_offset, allAlerts, handled>>
    /\ UNCHANGED exceptTail

MonitorStopStep == \E saved \in BOOLEAN : MonitorStop(saved)

\* The process is started again: monitor_alerts up to the while loop (lines
\* 196-216)
MonitorStart ==
    /\ ~tailRunning
    /\ tailRunning' = TRUE
    /\ allAlerts' = alertsJson
    /\ f_offset' = seek_end(eveLog)
    /\ UNCHANGED <<eveLog, alertsJson, handled, tailBudget>>
    /\ UNCHANGED exceptTail

(***************************************************************************)
(* The tailer and an appender that writes a line in pieces:                *)
(* suricata_ingest.py process_new_lines                                    *)
(***************************************************************************)
\* greatest number of lines the appender writes
MaxTextLines == 3

\* What one write puts into eve.json: the first part of line k, the rest of
\* its JSON text, or its terminating newline
Written(k, part) == [line |-> k, part |-> part]

WholeLine(k) == <<Written(k, "head"), Written(k, "rest"), Written(k, "newline")>>

\* The lines are alerts of different hosts
HostOf(k) == "10.0.0." \o ToString(k)

\* `for line in f` from piece i on: the text up to and including each
\* newline, and what is left after the last newline as a last line
RECURSIVE SplitLines(_, _, _)
SplitLines(text, i, cur) ==
    IF i > Len(text) THEN (IF cur = << >> THEN << >> ELSE <<cur>>)
    ELSE IF text[i].part = "newline"
    THEN <<Append(cur, text[i])>> \o SplitLines(text, i + 1, << >>)
    ELSE SplitLines(text, i + 1, Append(cur, text[i]))

\* eve_line.strip(): the line without its newline
Strip(chunk) ==
    IF chunk # << >> /\ chunk[Len(chunk)].part = "newline"
    THEN SubSeq(chunk, 1, Len(chunk) - 1) ELSE chunk

\* What json.loads makes of a line read: the alert of line k when the line
\* is the whole JSON text of line k, and otherwise text that is not JSON
LineRead(chunk) ==
    LET body == Strip(chunk) IN
    IF Len(body) = 2 /\ body[1].part = "head" /\ body[2].part = "rest"
       /\ body[1].line = body[2].line
    THEN AlertLine(HostOf(body[1].line), 1, 0, FALSE)
    ELSE GarbageLine

RECURSIVE SizeOf(_, _)
SizeOf(chunks, n) == IF n = 0 THEN 0 ELSE Len(chunks[n]) + SizeOf(chunks, n - 1)

TextInit ==
    /\ eveText = << >>
    /\ textPosition = 0
    /\ textCache = EmptyCache
    /\ emitted = << >>

\* The line the appender is writing, or would write next
LinesBegun == Cardinality({i \in 1..Len(eveText) : eveText[i].part = "head"})

MidLine == eveText # << >> /\ eveText[Len(eveText)].part # "newline"

\* The appender writes a whole line in one write
WriteLine ==
    /\ ~MidLine
    /\ LinesBegun < MaxTextLines
    /\ eveText' = eveText \o WholeLine(LinesBegun + 1)
    /\ UNCHANGED <<textPosition, textCache, emitted>>
    /\ UNCHANGED exceptText

\* The appender writes the next part of a line, and the next write brings
\* what follows
WritePiece ==
    /\ \/ /\ ~MidLine
          /\ LinesBegun < MaxTextLines
          /\ eveText' = Append(eveText, Written(LinesBegun + 1, "head"))
       \/ /\ MidLine
          /\ eveText[Len(eveText)].part = "head"
          /\ \/ eveText' = Append(eveText, Written(LinesBegun, "rest"))
             \/ eveText' = eveText \o <<Written(LinesBegun, "rest"),
                                        Written(LinesBegun, "newline")>>
       \/ /\ MidLine
          /\ eveText[Len(eveText)].part = "rest"
          /\ eveText' = Append(eveText, Written(LinesBegun, "newline"))
    /\ UNCHANGED <<textPosition, textCache, emitted>>
    /\ UNCHANGED exceptText

\* SuricataProcessor.process_new_lines over the text of the file
TextPoll ==
    LET current_size == Len(eveText)
        start  == IF current_size < textPosition THEN 0 ELSE textPosition
        chunks == SplitLines(eveText, start + 1, << >>)
        lines  == [i \in 1..Len(chunks) |-> LineRead(chunks[i])]
        st0    == [cache |-> textCache, stats |-> ZeroStats, out |-> << >>,
                   outcomes |-> << >>, triples |-> {}]
        st     == IF current_size = start THEN st0
                  ELSE ProcessLines(st0, lines, 0, 0)
        n      == Len(st.outcomes)
        raised == TellRaises(n)
        returned == IF raised THEN << >> ELSE st.out
    IN  /\ current_size # start
        /\ textCache' = st.cache
        /\ textPosition' = IF raised THEN start ELSE start + SizeOf(chunks, n)
        /\ emitted' = emitted \o [i \in 1..Len(returned) |-> returned[i].src_ip]
        /\ UNCHANGED eveText
        /\ UNCHANGED exceptText

(***************************************************************************)
(* Two processes in save_json_atomic on one destination: app.py (the       *)
(* dashboard) and suricata_ingest.py (the tailer)                          *)
(***************************************************************************)
\* calls of save_json_atomic each process makes
MaxSaves == 2

Savers == {"dashboard", "tailer"}

\* HOST_EVENTS_PATH and the path both functions stage through
SharedDest == HOST_EVENTS_FILE
SharedTmp == TmpPath(HOST_EVENTS_FILE)

\* A file that holds the whole document of one writer
DocumentOf(who) == [i \in 1..DocLen |-> who]

\* The inodes a state may hold: the destination's first and one for each open
InodeIds == 1..(1 + 2 * MaxSaves)

PairInit ==
    /\ fsInodes = [n \in InodeIds |->
                       IF n = 1 THEN DocumentOf("before") ELSE << >>]
    /\ fsDir = [p \in {SharedDest, SharedTmp} |->
                    IF p = SharedDest THEN 1 ELSE 0]
    /\ saver = [w \in Savers |->
                   [pc |-> "idle", fd |-> 0, offset |-> 0, saves |-> 0,
                    failed |-> FALSE]]

\* The inode a new file gets
FreshInode == 2 + saver["dashboard"].saves + saver["tailer"].saves

\* write(fd, cell) at offset `at` of a file opened without O_APPEND: the
\* cell replaces what is there, or follows a gap of zero bytes
WriteAt(content, at, cell) ==
    [i \in 1..(IF at + 1 > Len(content) THEN at + 1 ELSE Len(content)) |->
        IF i = at + 1 THEN cell
        ELSE IF i <= Len(content) THEN content[i] ELSE "nul"]

\* tmp = path + ".tmp"; open(tmp, "w"): the file is created, or the file
\* that is there is truncated
PairOpen(w) ==
    /\ saver[w].pc = "idle"
    /\ saver[w].saves < MaxSaves
    /\ LET ino == IF fsDir[SharedTmp] # 0 THEN fsDir[SharedTmp] ELSE FreshInode
       IN  /\ fsDir' = [fsDir EXCEPT ![SharedTmp] = ino]
           /\ fsInodes' = [fsInodes EXCEPT ![ino] = << >>]
           /\ saver' = [saver EXCEPT ![w] =
                           [pc |-> "dump", fd |-> ino, offset |-> 0,
                            saves |-> @.saves + 1, failed |-> @.failed]]
    /\ UNCHANGED exceptPair

\* json.dump(obj, f, indent=2); f.flush(): one more piece of the document
\* reaches the open file
PairDump(w) ==
    /\ saver[w].pc = "dump"
    /\ saver[w].offset < DocLen
    /\ fsInodes' = [fsInodes EXCEPT ![saver[w].fd] =
                       WriteAt(@, saver[w].offset, w)]
    /\ saver' = [saver EXCEPT ![w].offset = @ + 1]
    /\ UNCHANGED fsDir
    /\ UNCHANGED exceptPair

\* os.fsync, the file is closed, os.replace(tmp, path); FileNotFoundError
\* when there is no file at tmp, caught and printed by the except clause
PairReplace(w) ==
    /\ saver[w].pc = "dump"
    /\ saver[w].offset = DocLen
    /\ IF fsDir[SharedTmp] # 0
       THEN /\ fsDir' = [fsDir EXCEPT ![SharedDest] = fsDir[SharedTmp],
                                      ![SharedTmp] = 0]
            /\ saver' = [saver EXCEPT ![w].pc = "idle", ![w].fd = 0,
                                      ![w].offset = 0]
       ELSE /\ fsDir' = fsDir
            /\ saver' = [saver EXCEPT ![w].pc = "idle", ![w].fd = 0,
                                      ![w].offset = 0, ![w].failed = TRUE]
    /\ UNCHANGED fsInodes
    /\ UNCHANGED exceptPair

PairOpenStep == \E w \in Savers : PairOpen(w)
PairDumpStep == \E w \in Savers : PairDump(w)
PairReplaceStep == \E w \in Savers : PairReplace(w)

(***************************************************************************)
(* The SSE event server: events_server.py sse_generator                    *)
(***************************************************************************)
\* greatest number of events appended to host_isolation_events.json
MaxSseEvents == 8
\* greatest number of clients that connect one after the other
MaxClients == 3

SseInit ==
    /\ sseFile = << >>
    /\ last_len = 0
    /\ sseSent = << >>
    /\ sseBudget = [events |-> 0, clients |-> 1]

\* update_host_events stores one more event: the file keeps the last
\* MAX_EVENTS (cleanup_old_alerts, line 185)
SseAppend ==
    /\ sseBudget.events < MaxSseEvents
    /\ sseBudget' = [sseBudget EXCEPT !.events = @ + 1]
    /\ sseFile' = CleanupEvents(Append(sseFile, sseBudget.events + 1))
    /\ UNCHANGED <<last_len, sseSent>>
    /\ UNCHANGED exceptSse

\* evs[last_len:]
SliceFrom(evs, n) == SubSeq(evs, n + 1, Len(evs))

\* One turn of sse_generator's while loop (lines 32-38)
SsePoll ==
    /\ LET evs == sseFile IN
       IF Len(evs) > last_len
       THEN /\ sseSent' = sseSent \o SliceFrom(evs, last_len)
            /\ last_len' = Len(evs)
       ELSE UNCHANGED <<last_len, sseSent>>
    /\ UNCHANGED <<sseFile, sseBudget>>
    /\ UNCHANGED exceptSse

\* The client goes away and another connects: GET /events/alerts starts a
\* new sse_generator (lines 29-30, 44-46)
SseConnect ==
    /\ sseBudget.clients < MaxClients
    /\ sseBudget' = [sseBudget EXCEPT !.clients = @ + 1]
    /\ last_len' = 0
    /\ sseSent' = << >>
    /\ UNCHANGED sseFile
    /\ UNCHANGED exceptSse

(***************************************************************************)
(* utils.py sha1_fingerprint called with any parts                         *)
(***************************************************************************)
\* A part is None or a string
None == [isNone |-> TRUE, str |-> ""]
Str(s) == [isNone |-> FALSE, str |-> s]

\* The parts of the calls: sources and types that share their letters, the
\* empty string and None
SourceParts == {Str("a"), Str("ab"), Str(""), None}
TypeParts == {Str("c"), Str("bc"), Str("")}
PartTuples ==
    {<<src, typ, Str("d"), Str("b")>> : src \in SourceParts, typ \in TypeParts}

\* (p or ''): None and the empty string both give the empty string
OrEmpty(p) == IF p.isNone \/ p.str = "" THEN "" ELSE p.str

\* The bytes the loop of lines 5-6 feeds to the hash, update by update
RECURSIVE FedBytes(_, _)
FedBytes(parts, i) ==
    IF i > Len(parts) THEN ""
    ELSE OrEmpty(parts[i]) \o FedBytes(parts, i + 1)

FpInit == fpCalls = << >>

\* sha1_fingerprint(*parts) with four parts
FingerprintCall(parts) ==
    /\ fpCalls' = LastN(Append(fpCalls,
                     [parts |-> parts,
                      fed |-> FedBytes(parts, 1),
                      digest |-> sha1_fingerprint(OrEmpty(parts[1]),
                                     OrEmpty(parts[2]), OrEmpty(parts[3]),
                                     OrEmpty(parts[4]))]), 2)
    /\ UNCHANGED exceptFp

FingerprintCallStep == \E parts \in PartTuples : FingerprintCall(parts)

(***************************************************************************)
(* Host isolation: isolation_controller.py                                 *)
(***************************************************************************)
\* isolate_host and release_host calls made in a behaviour
MaxIsoOps == 3

IsoHosts == {"10.0.0.5", "10.0.0.6"}
IsoReasons == {"Operator action", "malware"}

\* Values of ISOLATION_MODE in the environment: the four modes, one of them
\* in capitals, a value that names no mode, and the variable unset
EnvModes == {"sim", "firewall_win", "firewall_linux", "VBOX", "off", "unset"}

\* os.environ.get("ISOLATION_MODE","sim").lower()
ModeOf(env) ==
    CASE env = "unset" -> "sim"
      [] env = "VBOX"  -> "vbox"
      [] OTHER         -> env

\* os.environ.get("VBOX_VM_NAME","Kali")
VboxVm == "Kali"

\* _load_state(path): {} when the file is absent, else the document
load_state(file) == IF file.exists THEN file.doc ELSE << >>

\* state[ip] = entry
SetEntry(state, ip, entry) ==
    [x \in DOMAIN state \cup {ip} |-> IF x = ip THEN entry ELSE state[x]]

IsoEntry(status, reason, ts, mode) ==
    [status |-> status, reason |-> reason, ts |-> ts, mode |-> mode]

\* The functions of the four modes: each returns the document it saves.
\* The commands run before (powershell, iptables, VBoxManage) write no
\* file of the program.
sim_isolate(ip, reason, file, ts) ==
    SetEntry(load_state(file), ip, IsoEntry("isolated", reason, ts, "sim"))

sim_release(ip, file, ts) ==
    SetEntry(load_state(file), ip, IsoEntry("released", "release", ts, "sim"))

win_firewall_isolate(ip, reason, file, ts) ==
    SetEntry(load_state(file), ip,
             IsoEntry("isolated", reason, ts, "firewall_win"))

win_firewall_release(ip, file, ts) ==
    SetEntry(load_state(file), ip,
             IsoEntry("released", "release", ts, "firewall_win"))

linux_firewall_isolate(ip, reason, file, ts) ==
    SetEntry(load_state(file), ip,
             IsoEntry("isolated", reason, ts, "firewall_linux"))

linux_firewall_release(ip, file, ts) ==
    SetEntry(load_state(file), ip,
             IsoEntry("released", "release", ts, "firewall_linux"))

\* _vbox_release that turns the link on and saves nothing
vbox_release_link_only(ip, file, ts) == load_state(file)

vbox_isolate(ip, reason, file, ts) ==
    SetEntry(load_state(file), ip,
             [status |-> "isolated", reason |-> reason, ts |-> ts,
              mode |-> "vbox", vm |-> VboxVm])

vbox_release(ip, file, ts) ==
    SetEntry(load_state(file), ip,
             [status |-> "released", reason |-> "release", ts |-> ts,
              mode |-> "vbox", vm |-> VboxVm])

\* isolate_host(ip, reason, state_path): the document saved
isolate_host(ip, reason, env, file, ts) ==
    LET mode == ModeOf(env) IN
    IF mode = "firewall_win" THEN win_firewall_isolate(ip, reason, file, ts)
    ELSE IF mode = "firewall_linux"
    THEN linux_firewall_isolate(ip, reason, file, ts)
    ELSE IF mode = "vbox" THEN vbox_isolate(ip, reason, file, ts)
    ELSE sim_isolate(ip, reason, file, ts)

\* release_host(ip, state_path): the document saved
release_host(ip, env, file, ts) ==
    LET mode == ModeOf(env) IN
    IF mode = "firewall_win" THEN win_firewall_release(ip, file, ts)
    ELSE IF mode = "firewall_linux" THEN linux_firewall_release(ip, file, ts)
    ELSE IF mode = "vbox" THEN vbox_release(ip, file, ts)
    ELSE sim_release(ip, file, ts)

NoIsoOp == [op |-> "none", ip |-> "", env |-> ""]

IsoInit ==
    /\ isoFile = [exists |-> FALSE, doc |-> << >>]
    /\ isoClock = 0
    /\ isoOp = NoIsoOp
    /\ isoLast = << >>

\* One call of isolate_host, from the call to the os.replace of _save_state
IsolateHost(ip, reason, env) ==
    /\ isoClock < MaxIsoOps
    /\ isoClock' = isoClock + 1
    /\ isoFile' = [exists |-> TRUE,
                   doc |-> isolate_host(ip, reason, env, isoFile, isoClock)]
    /\ isoOp' = [op |-> "isolate", ip |-> ip, env |-> env]
    /\ isoLast' = SetEntry(isoLast, ip, "isolated")
    /\ UNCHANGED exceptIso

\* One call of release_host
ReleaseHost(ip, env) ==
    /\ isoClock < MaxIsoOps
    /\ isoClock' = isoClock + 1
    /\ isoFile' = [exists |-> TRUE,
                   doc |-> release_host(ip, env, isoFile, isoClock)]
    /\ isoOp' = [op |-> "release", ip |-> ip, env |-> env]
    /\ isoLast' = SetEntry(isoLast, ip, "released")
    /\ UNCHANGED exceptIso

IsolateHostStep ==
    \E ip \in IsoHosts, reason \in IsoReasons, env \in EnvModes :
        IsolateHost(ip, reason, env)

ReleaseHostStep ==
    \E ip \in IsoHosts, env \in EnvModes : ReleaseHost(ip, env)

(***************************************************************************)
(* Specifications                                                          *)
(***************************************************************************)
Init == SimInit /\ IdsInit /\ SaveInit /\ DashInit /\ LoopInit
        /\ FetchInit /\ CardInit /\ LoadInit /\ DetInit /\ TailInit
        /\ TextInit /\ PairInit /\ SseInit /\ FpInit
        /\ IsoInit

SimNext == SimCycleStep \/ SimTick \/ SimRestart

SpecSim == Init /\ [][SimNext]_vars

\* The tailer over a log of alerts, other events and malformed lines
IdsNext ==
    \/ ProcessNewLines
    \/ UpdateHostEvents
    \/ IdsRestart
    \/ TailAppend
    \/ EveTruncate

SpecIds == Init /\ [][IdsNext]_vars

\* The tailer over a log of alerts as time passes
DedupNext ==
    \/ ProcessNewLines
    \/ UpdateHostEvents
    \/ DedupAppend
    \/ EveTruncate
    \/ IdsTick

SpecDedup == Init /\ [][DedupNext]_vars

\* The tailer over a log of timestamped alerts that may shrink
OrderNext ==
    \/ ProcessNewLines
    \/ UpdateHostEvents
    \/ OrderAppend
    \/ EveCutBack
    \/ OrderTick

SpecOrder == Init /\ [][OrderNext]_vars

\* The tailer over a log of alerts of every priority
SeverityNext ==
    \/ ProcessNewLines
    \/ UpdateHostEvents
    \/ SeverityAppend

SpecSeverity == Init /\ [][SeverityNext]_vars

\* The dashboard script run again and again over the lists it loads
CardNext == RunScriptStep

SpecCard == Init /\ [][CardNext]_vars

\* A file that changes under its readers
LoadNext == DiskChange \/ ReadCallStep

SpecLoad == Init /\ [][LoadNext]_vars

\* The detection rules over the records of the simulator
DetNext == HandleItemStep \/ DetRestartStep

SpecDet == Init /\ [][DetNext]_vars

\* One writer saving documents to one destination, and a reader
SaveNext ==
    \/ SaveCallStep
    \/ SaveOpen
    \/ SaveDump
    \/ SaveDumpRaises
    \/ SaveSync
    \/ SaveReplace
    \/ SaveCrash
    \/ SaveRead

SpecSave == Init /\ [][SaveNext]_vars

\* The output files: the two ingest loops and the dashboard
DashNext ==
    \/ InjectThreatStep
    \/ InjectSaveAlerts
    \/ InjectLoadFeed
    \/ InjectSaveFeed
    \/ InjectSaveEvents
    \/ GenCycleStep
    \/ GenSaveAlerts
    \/ TailerLoad
    \/ TailerSave

SpecDash == Init /\ [][DashNext]_vars

\* The polling loops
LoopsNext ==
    \/ MonitorIterationOk
    \/ MonitorIterationRaises
    \/ MonitorInterrupted
    \/ EnhancedIterationOk
    \/ EnhancedIterationRaises
    \/ EnhancedInterrupted
    \/ RunIterationOk
    \/ RunIterationRaises

SpecLoops == Init /\ [][LoopsNext]_vars

\* The same loops, run_enhanced_monitor never ceasing to iterate while its
\* loop runs (time.sleep returns)
EnhancedIteration == EnhancedIterationOk \/ EnhancedIterationRaises

SpecLoopsFair == SpecLoops /\ WF_vars(EnhancedIteration)

\* The space-weather loops
FetchNext ==
    \/ DonkiFetchStep
    \/ DonkiStore
    \/ DonkiStoreRaises
    \/ SwpcIterationStep
    \/ SwpcIterationRaises

SpecFetch == Init /\ [][FetchNext]_vars

(***************************************************************************)
(* Properties                                                              *)
(***************************************************************************)
\* The offset process_new_lines starts reading from in the recorded poll
PollStart ==
    IF idsHist.poll.sizeAtPoll < idsHist.poll.posBefore THEN 0
    ELSE idsHist.poll.posBefore

\* process_new_lines has returned and update_host_events has not run yet
AfterPoll == pc = "update" /\ idsHist.poll.done

\* The positions of the recorded poll's lines with outcome o
LinesWith(o) ==
    {i \in 1..Len(idsHist.poll.outcomes) : idsHist.poll.outcomes[i] = o}

\* C1: in the simulator loop a candidate whose fingerprint equals that of an
\* alert among the last 100 (RecentWindow) retained alerts is not appended:
\* no two retained alerts within that distance of each other share a
\* fingerprint.
C1_FingerprintDedup ==
    \A i, j \in 1..Len(alerts) :
        (i < j /\ j - i <= RecentWindow)
            => alerts[i].fingerprint # alerts[j].fingerprint

\* The alerts that parse_suricata_alert makes of the lines `lines`
ParsedAlerts(lines) ==
    [i \in 1..Len(lines) |-> parse_suricata_alert(lines[i]).alert]

\* Valid alert lines with pairwise distinct (src_ip, dest_ip, signature_id),
\* few enough for one batch
DistinctAlertLines(lines) ==
    /\ Len(lines) < BATCH_SIZE
    /\ \A i \in 1..Len(lines) :
          lines[i].json = "object" /\ lines[i].event_type = "alert"
    /\ \A i, j \in 1..Len(lines) :
          i # j => Triple(ParsedAlerts(lines)[i]) # Triple(ParsedAlerts(lines)[j])

\* C2: reader resumption.  A processor constructed from the persisted state
\* after a stop between two poll cycles returns, from its first
\* process_new_lines, exactly the alerts of the valid alert lines after the
\* offset the stopped processor had reached: none when there are none.  (Stated for runs in
\* which no iteration has raised and eve.json has only been appended to.)
C2_ReaderResumption ==
    (AfterPoll /\ idsHist.poll.first /\ ~idsHist.raised
        /\ idsBudget.truncates = 0
        /\ DistinctAlertLines(idsHist.poll.fresh))
        => new_alerts = ParsedAlerts(idsHist.poll.fresh)

\* C3: after every poll cycle in which process_new_lines changed
\* last_position, the persisted last_position equals the one in memory
\* before the next poll starts.  (Stated for runs in which no iteration has
\* raised.)
C3_OffsetPersisted ==
    (pc = "poll" /\ idsHist.posChanged /\ ~idsHist.raised)
        => (stateFile.exists /\ stateFile.last_position = last_position)

\* C4: each process_new_lines processes at most BATCH_SIZE lines and then
\* sets last_position just after the last line it processed (so repeated
\* polls work through a backlog).
C4_BatchProgress ==
    AfterPoll =>
        /\ Len(idsHist.poll.readLines) <= BATCH_SIZE
        /\ last_position = PollStart + Len(idsHist.poll.readLines)

\* C5: when eve.json is smaller than last_position at a poll,
\* process_new_lines reads from offset 0 in that poll, counts no error
\* beyond those of the lines it read, and ends with
\* 0 <= last_position <= the file's size.
C5_RotationHandling ==
    (AfterPoll /\ idsHist.poll.sizeAtPoll < idsHist.poll.posBefore) =>
        /\ idsHist.poll.readLines = SubSeq(eve, 1, Len(idsHist.poll.readLines))
        /\ (idsHist.poll.sizeAtPoll > 0 => idsHist.poll.readLines # << >>)
        /\ stats.errors = idsHist.poll.statsBefore.errors
                              + Cardinality(LinesWith("error"))
        /\ 0 <= last_position
        /\ last_position <= idsHist.poll.sizeAtPoll

\* C6: a line that is not parseable JSON is skipped and adds exactly one to
\* stats["errors"]; the other lines of the batch are still processed.
C6_MalformedCounted ==
    (AfterPoll /\ ~idsHist.poll.tellRaised) =>
        /\ stats.errors = idsHist.poll.statsBefore.errors
               + Cardinality(LinesWith("error"))
               + Cardinality({i \in 1..Len(idsHist.poll.readLines) :
                                 idsHist.poll.readLines[i].json = "invalid"})
        /\ Len(idsHist.poll.readLines) = idsHist.poll.sizeAtPoll - PollStart

\* C8, simulator: at most MAX_ALERTS alerts are retained, and once more have
\* been appended they are the MAX_ALERTS last appended, in order.
SimRetentionCap ==
    /\ Len(alerts) <= MAX_ALERTS
    /\ Len(simAccepted) > MAX_ALERTS =>
          [i \in 1..Len(alerts) |-> alerts[i].id] = LastN(simAccepted, MAX_ALERTS)

\* C8, tailer: after every cycle host_isolation_events.json holds at most
\* MAX_EVENTS events, and once more alerts have been returned by
\* process_new_lines it holds the MAX_EVENTS last of them, in order.
IdsRetentionCap ==
    pc = "poll" =>
        /\ Len(hostEvents) <= MAX_EVENTS
        /\ idsHist.accCount > MAX_EVENTS => hostEvents = idsHist.accTail

\* C8: the retention cap of both ingest loops, eviction oldest first.
C8_RetentionCap == SimRetentionCap /\ IdsRetentionCap

\* C9: the dedup key is (src_ip, dest_ip, signature_id): a line rejected as
\* a duplicate repeats the three of an alert accepted before, so two alert
\* lines between the same hosts under different signature ids are both
\* accepted.  (Stated for polls that end without an exception.)
C9_KeyHasSignatureId ==
    (AfterPoll /\ ~idsHist.poll.tellRaised) => LinesWith("duplicate") = {}

\* C10: when is_duplicate rejects a repeat sighting, the cache entry of its
\* key carries the repeat's timestamp.  (Stated for polls that end without
\* an exception.)
C10_CacheRefreshed ==
    (AfterPoll /\ ~idsHist.poll.tellRaised) =>
        \A i \in LinesWith("repeat") \cup LinesWith("duplicate") :
            (\A j \in (i + 1)..Len(idsHist.poll.readLines) :
                 create_alert_hash(idsHist.poll.readLines[j])
                     # create_alert_hash(idsHist.poll.readLines[i]))
            => /\ create_alert_hash(idsHist.poll.readLines[i]) \in DOMAIN alert_cache
               /\ alert_cache[create_alert_hash(idsHist.poll.readLines[i])].timestamp
                      = idsHist.poll.readLines[i].timestamp

\* C7: a crash inside save_json / save_json_atomic leaves the destination as
\* it was before the call, the destination is never a truncated document,
\* and a reader sees the document of before the call or the new one, whole.
C7_AtomicPersistence ==
    /\ saveHist.crashed => files[DestPath] = saveHist.before
    /\ savePc # "idle" => files[DestPath] = saveHist.before
    /\ files[DestPath].exists => ValidJson(files[DestPath])
    /\ saveHist.read.exists => ValidJson(saveHist.read)
    /\ saveHist.readOk

\* A crash with the temporary file partly written, over an existing
\* destination that a reader has read since the call began
C7_Witness ==
    /\ saveHist.crashed
    /\ files[TmpPath(DestPath)].exists
    /\ files[TmpPath(DestPath)].written \in 1..(DocLen - 1)
    /\ files[DestPath].exists
    /\ files[TmpPath(DestPath)].doc # files[DestPath].doc
    /\ saveHist.read = files[DestPath]

\* C11: every output file is written by its owning ingest loop only; the
\* dashboard writes none of them.
C11_SingleWriter ==
    \A f \in OutputFiles : writers[f] \subseteq {Owner(f)}

\* C12: monitor_suricata leaves its loop for too many errors exactly when
\* max_consecutive_errors (10) iterations in a row have raised: not before,
\* and not later; a successful iteration sets the count back to 0, so the
\* count is the number of failures since the last success.
C12_ErrorBudget ==
    /\ monPc = "exited" => monHist.streak = max_consecutive_errors
    /\ monPc = "running" => monHist.streak < max_consecutive_errors
    /\ consecutive_errors = monHist.streak

\* 9 failures, one success and 9 more failures: the loop still runs
C12_Witness ==
    /\ monPc = "running"
    /\ monHist.prevStreak = max_consecutive_errors - 1
    /\ monHist.streak = max_consecutive_errors - 1

\* C13: a loop is left only when its budget of consecutive failing
\* iterations is spent (or by the operator's interrupt): a failing
\* iteration never ends the simulator loop, the DONKI loop or an IDS loop.
C13_OnlyBudgetIsFatal ==
    /\ runPc = "running"
    /\ donkiPc # "raised"
    /\ enhPc \in {"running", "interrupted"}
    /\ monPc = "exited" => monHist.streak = max_consecutive_errors

\* C14: if every iteration of run_enhanced_monitor fails, the loop
\* eventually ends.
C14_FailStop ==
    [](enhLast.outcome # "ok") => <>(enhPc # "running")

\* The entries of nasa_live_feed_data.json whose event_type is the endpoint
CachedEntries(endpoint) ==
    SelectSeq(nasaFeedFile, LAMBDA d : d.event_type = endpoint)

\* C15: a failed fetch ends no polling loop.  In the DONKI loop a failed
\* request makes fetch_or_fallback return the feed file's entries of that
\* endpoint, and an iteration with failed requests whose save does not
\* raise writes the feed and goes on; in the SWPC loop a failed fetch is
\* replaced by the local sample, or by the default, which is written.
C15_FetchFailureTolerated ==
    /\ (donkiHist.failed /\ ~donkiHist.stored)
           => donkiHist.items = CachedEntries(donkiHist.endpoint)
    /\ (donkiHist.anyFailed /\ donkiHist.stored)
           => (donkiPc = "fetch" /\ nasaFeedFile = donkiFeed)
    /\ (swpcHist.done /\ swpcHist.fetchFailed /\ swpcPc = "running")
           => swpcFile = (IF swpcHist.sample THEN "sample" ELSE "{}")

\* A failed request answered from a feed file that holds entries of the
\* endpoint, and a failed SWPC fetch answered by the sample
C15_Witness ==
    /\ donkiHist.failed
    /\ ~donkiHist.stored
    /\ donkiHist.items # << >>
    /\ swpcHist.done /\ swpcHist.fetchFailed /\ swpcHist.sample
    /\ swpcPc = "running"


(***************************************************************************)
(* C16: after every append the alerts a loop has appended stand in the     *)
(* retained list in non-decreasing timestamp order, for the simulator      *)
(* loop and for the IDS tailer, also after the tailer has gone back to     *)
(* offset 0 and read lines again.                                          *)
(***************************************************************************)
NonDecreasing(list) ==
    \A i \in 1..Len(list) : \A j \in i..Len(list) :
        list[i].timestamp <= list[j].timestamp

C16_TimestampOrder ==
    /\ NonDecreasing(alerts)
    /\ NonDecreasing(hostEvents)


(***************************************************************************)
(* C17: threat_level gives ("ok", "All Systems Normal") for no alerts;     *)
(* otherwise the level of the first member whose rank under                *)
(* INFO < LOW < MEDIUM < HIGH < CRITICAL is greatest, so LOW, CRITICAL and *)
(* HIGH in any order give the CRITICAL level.                              *)
(***************************************************************************)
\* The rank of a member; a member without severity, or with one outside the
\* five, ranks as LOW
SeverityRank(a) ==
    CASE GetSeverity(a) = "INFO"     -> 0
      [] GetSeverity(a) = "MEDIUM"   -> 2
      [] GetSeverity(a) = "HIGH"     -> 3
      [] GetSeverity(a) = "CRITICAL" -> 4
      [] OTHER                       -> 1

FirstOfGreatestRank(list, i) ==
    /\ \A j \in 1..Len(list) : SeverityRank(list[j]) <= SeverityRank(list[i])
    /\ \A j \in 1..(i - 1) : SeverityRank(list[j]) < SeverityRank(list[i])

SeveritiesOf(list) == {GetSeverity(list[i]) : i \in 1..Len(list)}

C17_ThreatLevel ==
    /\ merged_alerts = << >> =>
           sev_key = "ok" /\ sev_label = "All Systems Normal"
    /\ \A i \in 1..Len(merged_alerts) :
           FirstOfGreatestRank(merged_alerts, i) =>
               /\ sev_key = LevelKey(GetSeverity(merged_alerts[i]))
               /\ sev_label = LevelLabel(GetSeverity(merged_alerts[i]))
    /\ SeveritiesOf(merged_alerts) = {"LOW", "CRITICAL", "HIGH"} =>
           sev_key = "crit" /\ sev_label = "CRITICAL THREAT"

\* HIGH, LOW and CRITICAL, the greatest last
C17_Witness ==
    /\ Len(merged_alerts) = 3
    /\ GetSeverity(merged_alerts[1]) = "HIGH"
    /\ GetSeverity(merged_alerts[2]) = "LOW"
    /\ GetSeverity(merged_alerts[3]) = "CRITICAL"
    /\ sev_key = "crit"


(***************************************************************************)
(* C18: an alert line yields a candidate alert whose severity is CRITICAL  *)
(* for priority 1, HIGH for 2, MEDIUM for 3 or no priority, LOW for any    *)
(* other integer, and MEDIUM when the priority is not an integer.          *)
(***************************************************************************)
SeverityOfPriority(line) ==
    IF "priority" \notin DOMAIN line.alert THEN "MEDIUM"
    ELSE IF py_int(line.alert.priority).raised THEN "MEDIUM"
    ELSE CASE py_int(line.alert.priority).n = 1 -> "CRITICAL"
           [] py_int(line.alert.priority).n = 2 -> "HIGH"
           [] py_int(line.alert.priority).n = 3 -> "MEDIUM"
           [] OTHER -> "LOW"

C18_SeverityMapping ==
    AfterPoll =>
        \A i \in 1..Len(idsHist.poll.readLines) :
            LET line == idsHist.poll.readLines[i] IN
            (line.json = "object" /\ line.event_type = "alert") =>
                /\ idsHist.poll.outcomes[i] # "error"
                /\ parse_suricata_alert(line).res = "alert"
                /\ parse_suricata_alert(line).alert.severity
                       = SeverityOfPriority(line)


(***************************************************************************)
(* C19: load_json and _load_state never raise; when the file does not      *)
(* exist or does not hold valid JSON they return the default, so a loop    *)
(* started against a corrupt alert file goes on with an empty collection.  *)
(***************************************************************************)
C19_TolerantReaders ==
    loaded.fn # "" =>
        /\ ~loaded.result.raised
        /\ (~loaded.found.exists \/ ~ValidJson(loaded.found)) =>
               loaded.result.value = loaded.default
        /\ loaded.result.value \in {loaded.default, Parsed(loaded.found)}

\* generator.py's load_json(ALERTS_PATH, []) finds half a document
C19_Witness ==
    /\ loaded.fn = "generator.load_json"
    /\ loaded.default = "[]"
    /\ loaded.found.exists
    /\ loaded.found.written \in 1..(DocLen - 1)
    /\ loaded.result = Returned("[]")


(***************************************************************************)
(* C20: a line that is JSON but not an event of type alert is ignored: it  *)
(* yields no candidate, leaves the cache and the counters alerts,          *)
(* duplicates and errors as they are, and the offset moves past it.        *)
(***************************************************************************)
NotAnAlert(line) == line.json # "invalid" /\ line.event_type # "alert"

\* The loop body applied to `line` in the current state of the processor
Handled(line) ==
    ProcessLine([cache |-> alert_cache, stats |-> stats, out |-> << >>,
                 outcomes |-> << >>, triples |-> {}], line)

C20_NonAlertIgnored ==
    AfterPoll =>
        /\ \A i \in 1..Len(idsHist.poll.readLines) :
               NotAnAlert(idsHist.poll.readLines[i]) =>
                   /\ idsHist.poll.outcomes[i] = "ignored"
                   /\ Handled(idsHist.poll.readLines[i]).out = << >>
                   /\ Handled(idsHist.poll.readLines[i]).cache = alert_cache
                   /\ Handled(idsHist.poll.readLines[i]).stats
                          = [stats EXCEPT !.processed = @ + 1]
                   /\ last_position >= PollStart + i
        /\ (\A i \in 1..Len(idsHist.poll.readLines) :
                NotAnAlert(idsHist.poll.readLines[i])) =>
               /\ new_alerts = << >>
               /\ stats = [idsHist.poll.statsBefore EXCEPT
                              !.processed = @ + Len(idsHist.poll.readLines)]


(***************************************************************************)
(* C21: a NETWORK_TRAFFIC record yields 'DDoS' iff packet_count is above   *)
(* ddos_packets_min and 'Large Packet' iff data_volume_kb is above         *)
(* large_packet_kb_min and packet_count below large_packet_packets_max,    *)
(* each at most once.                                                      *)
(***************************************************************************)
Fired(typ) == Cardinality({i \in 1..Len(detected.types) : detected.types[i] = typ})

NetworkHandled == detected.feed.feed_type = "NETWORK_TRAFFIC"

NetworkRules ==
    NetworkHandled =>
        /\ Fired("DDoS") = IF detected.feed.packet_count
                                 > CFG.network.ddos_packets_min
                           THEN 1 ELSE 0
        /\ Fired("Large Packet")
               = IF /\ detected.feed.data_volume_kb
                           > CFG.network.large_packet_kb_min
                    /\ detected.feed.packet_count
                           < CFG.network.large_packet_packets_max
                 THEN 1 ELSE 0
        /\ Len(detected.types) = Fired("DDoS") + Fired("Large Packet")

\* C21 as stated: moreover every record whose packet_count is at or above
\* large_packet_packets_max yields exactly one 'DDoS' and no 'Large Packet'
C21_NetworkRulesAsStated ==
    /\ NetworkRules
    /\ (/\ NetworkHandled
        /\ detected.feed.packet_count >= CFG.network.large_packet_packets_max)
       => (Fired("DDoS") = 1 /\ Fired("Large Packet") = 0)

\* C21 amended: a record whose packet_count is above ddos_packets_min and at
\* or above large_packet_packets_max yields exactly one 'DDoS' and no
\* 'Large Packet', whatever its data volume
C21_NetworkRules ==
    /\ NetworkRules
    /\ (/\ NetworkHandled
        /\ detected.feed.packet_count > CFG.network.ddos_packets_min
        /\ detected.feed.packet_count >= CFG.network.large_packet_packets_max)
       => (Fired("DDoS") = 1 /\ Fired("Large Packet") = 0)

\* A record at the packet ceiling, above the DDoS threshold, with a data
\* volume above the large-packet size
C21_Witness ==
    /\ NetworkHandled
    /\ detected.feed.packet_count = CFG.network.large_packet_packets_max
    /\ detected.feed.packet_count > CFG.network.ddos_packets_min
    /\ detected.feed.data_volume_kb > CFG.network.large_packet_kb_min
    /\ detected.types = <<"DDoS">>


(***************************************************************************)
(* C22: with no previous fix detect emits neither 'GPS Spoofing' nor 'GPS  *)
(* Speed Gate' but still evaluates 'GPS Accuracy' and 'GPS Jamming'; with  *)
(* a previous fix each of the four rules fires on its own condition; the   *)
(* previous fix becomes the current record after every GPS detection.      *)
(***************************************************************************)
GpsHandled == detected.feed.feed_type = "GPS_SIGNAL"

Jump == haversine_m(detected.prev.position_m, detected.feed.position_m)

OneIf(cond) == IF cond THEN 1 ELSE 0

GpsRules ==
    GpsHandled =>
        /\ Fired("GPS Spoofing")
               = OneIf(Truthy(detected.prev)
                       /\ Jump > CFG.gps.spoofing_deg_threshold * MetresPerDegree)
        /\ Fired("GPS Speed Gate")
               = OneIf(Truthy(detected.prev)
                       /\ Jump > CFG.gps.speed_m_s_threshold)
        /\ Fired("GPS Accuracy")
               = OneIf(detected.feed.accuracy_m > CFG.gps.degraded_accuracy_m)
        /\ Fired("GPS Jamming")
               = OneIf(detected.feed.signal_strength_db < CFG.gps.weak_signal_db)
        /\ Len(detected.types)
               = Fired("GPS Spoofing") + Fired("GPS Speed Gate")
                 + Fired("GPS Accuracy") + Fired("GPS Jamming")
        /\ ~Truthy(detected.prev) =>
               Fired("GPS Spoofing") = 0 /\ Fired("GPS Speed Gate") = 0
        /\ prev_gps = detected.feed

GpsRuleNames == {"GPS Spoofing", "GPS Speed Gate", "GPS Accuracy", "GPS Jamming"}

\* Some record after some previous fix makes exactly the rules of `combo`
\* fire under the thresholds in force
MayFire(combo) ==
    \E prev \in GpsRecords : \E feed \in GpsRecords :
        SeqToSet(TypesOf(detect(feed, prev, CFG))) = combo

\* C22 as stated: with a previous fix any combination of the four rules may
\* fire on one record
C22_GpsRulesAsStated ==
    GpsHandled => (GpsRules /\ \A combo \in SUBSET GpsRuleNames : MayFire(combo))

\* The distance rule with the lower threshold, and the one with the higher
LowerGate ==
    IF CFG.gps.speed_m_s_threshold
           <= CFG.gps.spoofing_deg_threshold * MetresPerDegree
    THEN "GPS Speed Gate" ELSE "GPS Spoofing"
HigherGate == CHOOSE r \in {"GPS Speed Gate", "GPS Spoofing"} : r # LowerGate

\* C22 amended: 'GPS Accuracy' and 'GPS Jamming' combine freely with each
\* other and with the distance rules; 'GPS Spoofing' and 'GPS Speed Gate'
\* test the same distance, so the one with the higher threshold fires only
\* together with the other
C22_GpsRules ==
    GpsHandled =>
        /\ GpsRules
        /\ Fired(HigherGate) <= Fired(LowerGate)
        /\ \A combo \in SUBSET GpsRuleNames :
               (HigherGate \in combo => LowerGate \in combo) => MayFire(combo)

\* The four rules fire on one record
C22_Witness ==
    /\ GpsHandled
    /\ Truthy(detected.prev)
    /\ detected.types = <<"GPS Spoofing", "GPS Speed Gate", "GPS Accuracy",
                          "GPS Jamming">>
    /\ prev_gps = detected.feed


(***************************************************************************)
(* C23: for a COMMAND_LOG record 'Unauthorized Command' fires iff the      *)
(* source address is outside the allow-list and the user is 'unknown',     *)
(* 'Critical Command' iff the command is critical and the user is          *)
(* 'unknown_hacker', 'Failed Login' iff the command is LOGIN_ATTEMPT and   *)
(* the status contains 'FAILED'; the first two never fire together.        *)
(***************************************************************************)
CommandHandled == detected.feed.feed_type = "COMMAND_LOG"

CommandRules ==
    CommandHandled =>
        /\ Fired("Unauthorized Command")
               = OneIf(detected.feed.source_ip \notin Whitelist
                       /\ detected.feed.user_id = "unknown")
        /\ Fired("Critical Command")
               = OneIf(detected.feed.command_type \in Critical
                       /\ detected.feed.user_id = "unknown_hacker")
        /\ Fired("Failed Login")
               = OneIf(detected.feed.command_type = "LOGIN_ATTEMPT"
                       /\ ContainsFAILED(detected.feed.status))
        /\ Len(detected.types)
               = Fired("Unauthorized Command") + Fired("Critical Command")
                 + Fired("Failed Login")
        /\ Fired("Unauthorized Command") + Fired("Critical Command") <= 1

\* Some command record makes both rules fire
FireTogether(typ, other) ==
    \E feed \in CommandRecords :
        {typ, other} \subseteq SeqToSet(TypesOf(detect(feed, NoFix, CFG)))

\* C23 as stated: 'Failed Login' can accompany either of the two
C23_CommandRulesAsStated ==
    CommandHandled =>
        /\ CommandRules
        /\ FireTogether("Failed Login", "Unauthorized Command")
        /\ FireTogether("Failed Login", "Critical Command")

\* C23 amended: 'Failed Login' can accompany 'Unauthorized Command', and
\* never fires on the record of a 'Critical Command'
C23_CommandRules ==
    CommandHandled =>
        /\ CommandRules
        /\ FireTogether("Failed Login", "Unauthorized Command")
        /\ Fired("Failed Login") + Fired("Critical Command") <= 1

\* A failed login from an unknown user outside the allow-list
C23_Witness ==
    /\ CommandHandled
    /\ detected.types = <<"Unauthorized Command", "Failed Login">>


(***************************************************************************)
(* C24: two alerts of build_alert with equal source, type and description  *)
(* and timestamps in the same minute carry the same fingerprint, and the   *)
(* fingerprint of every alert is the digest of those three fields and the  *)
(* minute, whatever its id, its seconds and the restarts before it.        *)
(***************************************************************************)
BuiltAlerts == SeqToSet(alerts)

SameCandidate(a, b) ==
    /\ a.source = b.source
    /\ a.type = b.type
    /\ a.description = b.description
    /\ MinuteBucket(a.timestamp) = MinuteBucket(b.timestamp)

C24_IdempotentFingerprint ==
    /\ \A a \in BuiltAlerts : \A b \in BuiltAlerts :
           SameCandidate(a, b) => a.fingerprint = b.fingerprint
    /\ \A a \in BuiltAlerts :
           a.fingerprint = sha1_fingerprint(a.source, a.type, a.description,
                                            MinuteBucket(a.timestamp))

\* Two alerts of one candidate built at different seconds of one minute,
\* with different ids and one fingerprint
C24_Witness ==
    \E a \in BuiltAlerts : \E b \in BuiltAlerts :
        /\ SameCandidate(a, b)
        /\ a.id # b.id
        /\ a.timestamp # b.timestamp
        /\ a.fingerprint = b.fingerprint


(***************************************************************************)
(* C25: each rejection by is_duplicate adds one to stats['duplicates'] and *)
(* nothing to stats['alerts'] or stats['errors']; the rejected alert is    *)
(* not among the alerts the poll returns, and only returned alerts are     *)
(* appended to the host-events file.                                       *)
(***************************************************************************)
\* The number of lines of a poll that ended in one of `kinds`
Count(outcomes, kinds) ==
    Cardinality({i \in 1..Len(outcomes) : outcomes[i] \in kinds})

\* The alerts of the lines a poll accepted, in the order of the file
RECURSIVE AcceptedOf(_, _, _)
AcceptedOf(lines, outcomes, i) ==
    IF i > Len(lines) THEN << >>
    ELSE (IF outcomes[i] = "accepted"
          THEN <<parse_suricata_alert(lines[i]).alert>> ELSE << >>)
         \o AcceptedOf(lines, outcomes, i + 1)

PollStep == pc = "poll" /\ pc' = "update"

C25_DuplicateNotError ==
    [][/\ PollStep =>
            LET poll == idsHist'.poll
                tell == OneIf(poll.tellRaised)
            IN  /\ stats'.duplicates
                       = stats.duplicates
                         + Count(poll.outcomes, {"duplicate", "repeat"})
                /\ stats'.alerts
                       = stats.alerts + Count(poll.outcomes, {"accepted"})
                /\ stats'.errors
                       = stats.errors + Count(poll.outcomes, {"error"}) + tell
                /\ new_alerts' \in {<< >>,
                       AcceptedOf(poll.readLines, poll.outcomes, 1)}
       /\ hostEvents' # hostEvents =>
            hostEvents' = CleanupEvents(hostEvents \o new_alerts)
      ]_vars

\* A poll has read one line and is_duplicate has rejected it
C25_Witness ==
    /\ pc = "update"
    /\ idsHist.poll.done
    /\ Len(idsHist.poll.readLines) = 1
    /\ idsHist.poll.outcomes[1] \in {"duplicate", "repeat"}
    /\ stats.duplicates = idsHist.poll.statsBefore.duplicates + 1
    /\ stats.alerts = idsHist.poll.statsBefore.alerts
    /\ stats.errors = idsHist.poll.statsBefore.errors
    /\ new_alerts = << >>
    /\ hostEvents # << >>


(***************************************************************************)
(* The asset tailer, stopped and started again                             *)
(***************************************************************************)
TailNext ==
    \/ LogAppend
    \/ MonitorReadLine
    \/ MonitorIdleSave
    \/ MonitorStopStep
    \/ MonitorStart

SpecTail == Init /\ [][TailNext]_vars

\* A running monitor_alerts reads on, and a stopped process is started again
SpecTailFair ==
    SpecTail /\ WF_vars(MonitorReadLine) /\ WF_vars(MonitorStart)

(***************************************************************************)
(* C26: every alert line of eve.json is processed by monitor_alerts, also  *)
(* a line appended while the process was stopped, and none is processed    *)
(* twice.                                                                  *)
(***************************************************************************)
IsAlertLine(i) == i <= Len(eveLog) /\ eveLog[i].event_type = "alert"

C26_NoLineSkipped ==
    \A i \in 1..MaxLogLines :
        /\ [](handled[i] <= 1)
        /\ [](IsAlertLine(i) => <>(handled[i] = 1))


(***************************************************************************)
(* C27: every alert process_new_lines returns is eventually in             *)
(* host_isolation_events.json; a batch whose update_host_events raised is  *)
(* read or submitted again, not dropped with the offset advanced.          *)
(***************************************************************************)
\* The condition under which ProcessNewLines can take a step: the loop is
\* about to poll and the lines it would read fit the bound on the counter
PollEnabled ==
    LET start   == IF Len(eve) < last_position THEN 0 ELSE last_position
        pending == Len(eve) - start
        read    == IF pending > BATCH_SIZE THEN BATCH_SIZE ELSE pending
    IN  pc = "poll" /\ stats.processed + read <= MaxProcessed

\* monitor_suricata goes on polling and updating: weak fairness of
\* UpdateHostEvents and of ProcessNewLines, the latter written out with
\* its enabling condition
SpecIdsFair ==
    /\ SpecIds
    /\ WF_vars(UpdateHostEvents)
    /\ ([]<>(~PollEnabled) \/ []<><<ProcessNewLines>>_vars)

\* The alerts parse_suricata_alert makes of the lines of the log
TailAlerts ==
    {parse_suricata_alert(line).alert :
        line \in {l \in TailLines(0) : parse_suricata_alert(l).res = "alert"}}

ReturnedByPoll(a) == pc = "update" /\ a \in SeqToSet(new_alerts)

C27_NoAcceptedAlertLost ==
    \A a \in TailAlerts : [](ReturnedByPoll(a) => <>(a \in SeqToSet(hostEvents)))


(***************************************************************************)
(* The tailer polling while the appender writes                            *)
(***************************************************************************)
TextNext == WriteLine \/ WritePiece \/ TextPoll

SpecText == Init /\ [][TextNext]_vars

(***************************************************************************)
(* C28: a poll that finds a line without its newline leaves the offset at  *)
(* the start of that line, and once the line is complete and read its      *)
(* alert has been returned exactly once.                                   *)
(***************************************************************************)
AtLineStart(pos) == pos = 0 \/ eveText[pos].part = "newline"

TimesEmitted(k) ==
    Cardinality({i \in 1..Len(emitted) : emitted[i] = HostOf(k)})

LineComplete(k) == \E i \in 1..Len(eveText) : eveText[i] = Written(k, "newline")

C28_PartialLineSafe ==
    /\ AtLineStart(textPosition)
    /\ \A k \in 1..MaxTextLines :
           /\ TimesEmitted(k) <= 1
           /\ (LineComplete(k) /\ textPosition = Len(eveText))
                  => TimesEmitted(k) = 1


(***************************************************************************)
(* C29: an alert inject_threat has put into live_alerts.json or            *)
(* host_isolation_events.json is still in the file after the next write of *)
(* the loop that owns it, unless the cap evicted it; an alert the loop     *)
(* wrote between inject_threat's load and save is still in the file after  *)
(* inject_threat's save.                                                   *)
(***************************************************************************)
SharedFiles == {LIVE_ALERTS_FILE, HOST_EVENTS_FILE}

Cap(f) == IF f = HOST_EVENTS_FILE THEN MAX_EVENTS ELSE MAX_ALERTS

\* The entries of a document made by the dashboard, and those made by others
ByDashboard(doc) == {e \in SeqToSet(doc) : e.by = "dashboard"}
ByLoop(doc) == {e \in SeqToSet(doc) : e.by # "dashboard"}

\* The step is a write to f by the loop that owns it; by inject_threat
LoopWrites(f) == store'[f] # store[f] /\ injPc' = injPc
DashboardWrites(f) == store'[f] # store[f] /\ injPc' # injPc

C29_NoLostUpdate ==
    [][\A f \in SharedFiles :
          /\ (LoopWrites(f) /\ Len(store'[f]) < Cap(f))
                 => ByDashboard(store[f]) \subseteq ByDashboard(store'[f])
          /\ DashboardWrites(f)
                 => ByLoop(store[f]) \subseteq ByLoop(store'[f])
      ]_vars


(***************************************************************************)
(* Two writers of one destination                                          *)
(***************************************************************************)
PairNext == PairOpenStep \/ PairDumpStep \/ PairReplaceStep

SpecPair == Init /\ [][PairNext]_vars

(***************************************************************************)
(* C30: while the dashboard and the tailer save to one destination through *)
(* one '<path>.tmp', a reader of the destination finds a whole document of *)
(* one writer, and no writer's save fails.                                 *)
(***************************************************************************)
\* What a reader of the destination finds
DestContent == fsInodes[fsDir[SharedDest]]

WholeDocument(content) ==
    \E who \in Savers \cup {"before"} : content = DocumentOf(who)

C30_RenameAloneIsSafe ==
    /\ WholeDocument(DestContent)
    /\ \A w \in Savers : ~saver[w].failed


(***************************************************************************)
(* The event server while events are stored                                *)
(***************************************************************************)
SseNext == SseAppend \/ SsePoll \/ SseConnect

SpecSse == Init /\ [][SseNext]_vars

\* sse_generator's loop goes on while the client is connected
SpecSseFair == SpecSse /\ WF_vars(SsePoll)

\* sha1_fingerprint called over and over
FpNext == FingerprintCallStep

SpecFp == Init /\ [][FpNext]_vars

\* isolate_host and release_host called one after the other
IsoNext == IsolateHostStep \/ ReleaseHostStep

SpecIso == Init /\ [][IsoNext]_vars

(***************************************************************************)
(* C31: every event appended to host_isolation_events.json while a client  *)
(* is connected is eventually emitted to that client, and exactly once,    *)
(* also when the file is at its cap of MAX_EVENTS entries.  It is stated   *)
(* for the events that stay the newest entry of the file: those have not   *)
(* been evicted before the server could read them.                         *)
(***************************************************************************)
TimesSent(e) == Cardinality({i \in 1..Len(sseSent) : sseSent[i] = e})

\* Event e is the newest entry of the file
Newest(e) == sseFile # << >> /\ sseFile[Len(sseFile)] = e

C31_EveryEntryStreamed ==
    \A e \in 1..MaxSseEvents :
        /\ [](TimesSent(e) <= 1)
        /\ [](Newest(e) => <>(TimesSent(e) = 1 \/ ~Newest(e)))


(***************************************************************************)
(* C32: when process_new_lines has reset its offset to 0 and reads again   *)
(* an alert line whose key is in alert_cache with a cached time less than  *)
(* DEDUP_WINDOW before the line's time, or after it, the line is rejected  *)
(* as a duplicate and is not returned for the host-events file.            *)
(***************************************************************************)
\* The poll about to run finds the file shorter than its offset
ResetPoll == PollStep /\ Len(eve) < last_position

\* alert_cache as it is when the poll comes to line i of the file
CacheBefore(i) ==
    ProcessLines([cache |-> alert_cache, stats |-> stats, out |-> << >>,
                  outcomes |-> << >>, triples |-> idsHist.triples],
                 SubSeq(eve, 1, i - 1), 0, 0).cache

InsideWindow(alert, cache) ==
    LET key == create_alert_hash(alert.raw_event) IN
    /\ key \in DOMAIN cache
    /\ alert.timestamp - cache[key].timestamp < DEDUP_WINDOW

C32_ReplaySuppressed ==
    [][ResetPoll =>
          LET poll == idsHist'.poll IN
          /\ \A i \in 1..Len(poll.readLines) :
                 LET parsed == parse_suricata_alert(eve[i]) IN
                 (parsed.res = "alert"
                     /\ InsideWindow(parsed.alert, CacheBefore(i)))
                 => poll.outcomes[i] \in {"duplicate", "repeat"}
          /\ new_alerts' \in {<< >>,
                 AcceptedOf(poll.readLines, poll.outcomes, 1)}
      ]_vars

\* After a reset a poll has read again a line that is older than the cached
\* time of its key by the whole window, has rejected it, and the alert
\* stands once in the host-events file
C32_Witness ==
    /\ AfterPoll
    /\ idsHist.poll.sizeAtPoll < idsHist.poll.posBefore
    /\ Len(idsHist.poll.readLines) = 1
    /\ idsHist.poll.outcomes[1] \in {"duplicate", "repeat"}
    /\ LET alert == parse_suricata_alert(idsHist.poll.readLines[1]).alert
           key   == create_alert_hash(alert.raw_event)
       IN  /\ alert_cache[key].timestamp >= alert.timestamp + DEDUP_WINDOW
           /\ Cardinality({i \in 1..Len(hostEvents) : hostEvents[i] = alert}) = 1
    /\ new_alerts = << >>


(***************************************************************************)
(* C33: threat_level returns the key "ok" if and only if the collection is *)
(* empty: a collection with members, INFO or of unknown severity only      *)
(* included, gets another key.                                             *)
(***************************************************************************)
C33_OkOnlyWhenEmpty == (sev_key = "ok") <=> (merged_alerts = << >>)


(***************************************************************************)
(* C34: after process_new_lines returns, 0 <= last_position <= the size of *)
(* eve.json the poll observed; a poll that found no truncation does not    *)
(* lower last_position; and a poll that fails with an exception leaves     *)
(* last_position, the dedup cache and the alerts counter as they were      *)
(* before it.                                                              *)
(***************************************************************************)
C34_PollLeavesStateSound ==
    [][PollStep =>
          /\ 0 <= last_position'
          /\ last_position' <= Len(eve)
          /\ ~(Len(eve) < last_position) => last_position' >= last_position
          /\ idsHist'.poll.tellRaised =>
                 /\ last_position' = last_position
                 /\ alert_cache' = alert_cache
                 /\ stats'.alerts = stats.alerts
      ]_vars


(***************************************************************************)
(* C35: two calls of sha1_fingerprint whose (source, type, description,    *)
(* bucket) tuples differ feed different bytes to the hash and do not get   *)
(* the same fingerprint: ("ab","c",d,b) against ("a","bc",d,b), a None     *)
(* part against an empty string.                                           *)
(***************************************************************************)
C35_FingerprintUnambiguous ==
    (Len(fpCalls) = 2 /\ fpCalls[1].parts # fpCalls[2].parts) =>
        /\ fpCalls[1].fed # fpCalls[2].fed
        /\ fpCalls[1].digest # fpCalls[2].digest


(***************************************************************************)
(* C36: over polls of the DONKI loop in which every fetch falls back to    *)
(* the feed file, and nothing else writes that file, the number of items   *)
(* appended to the feed does not grow from one poll to the next and no     *)
(* "Rate Anomaly" alert is raised that the earlier poll did not raise.     *)
(***************************************************************************)
\* The last two polls stored were polls of fallbacks only
TwoFallbackPolls ==
    /\ Len(donkiHist.polls) = 2
    /\ donkiHist.polls[1].fallback
    /\ donkiHist.polls[2].fallback

C36_NoReingest ==
    TwoFallbackPolls =>
        /\ donkiHist.polls[2].appended <= donkiHist.polls[1].appended
        /\ donkiHist.polls[2].alert => donkiHist.polls[1].alert


(***************************************************************************)
(* C37: in every mode isolate_host(ip) sets the status of ip to "isolated" *)
(* and release_host(ip) sets it to "released"; each leaves the entries of  *)
(* the other IPs as they were; so after any series of calls made one after *)
(* the other the status of every IP is that of the last call made on it,   *)
(* and is "isolated" or "released".                                        *)
(***************************************************************************)
\* read_isolation_state()
IsolationState == load_state(isoFile)

StatusSetBy(op) == IF op = "isolate" THEN "isolated" ELSE "released"

====
